---- MODULE Spec2Model ----
(***************************************************************************)
(* Model of backend/server.py: the order lifecycle and checkout engine of  *)
(* the DomEda MVP server.  Collections (dishes, orders, payments) are the  *)
(* JSON files the handlers read and overwrite; one action per handler.     *)
(* Spec, SpecStatus and SpecCheckout handle one request at a time;         *)
(* SpecThreads runs two checkouts concurrently, one step per file access.  *)
(*                                                                         *)
(* Encoding of JSON values                                                 *)
(*   - a raw number field of a request is <<n>>, a missing or non-numeric  *)
(*     one is <<>> (safe_int falls back on it);                            *)
(*   - a raw text field is a string, NoText when the key is absent;        *)
(*   - a card number, CVC or holder name is a sequence of characters,      *)
(*     a digit being 0..9 and any larger number a non-digit character;     *)
(*   - an HH:MM text is the sequence of its ":"-separated parts, "" is <<>>*)
(*   - an ISO timestamp is the token Stamp, an absent one is "".           *)
(***************************************************************************)
EXTENDS Integers, Sequences, FiniteSets, TLC

\* dishes, orders, payments: the persisted collections
\* req, resp: the request being handled and the response handed to send_json
\* before: the collections as the handler of req read them (history variable)
\* threads: the requests that the threads of ThreadingHTTPServer are handling
\*          concurrently, each with its position and its local variables
\* reviews: the persisted collection of the reviews
VARIABLES dishes, orders, payments, req, resp, before, threads, reviews

vars == <<dishes, orders, payments, req, resp, before, threads, reviews>>

(***************************************************************************)
(* Bounds of the model.                                                    *)
(***************************************************************************)
MaxOrders == 2
MaxCartLen == 2
MaxReviews == 1
MaxDishes == 4
MaxReviewList == 3

(***************************************************************************)
(* Generic helpers.                                                        *)
(***************************************************************************)
Max(a, b) == IF a >= b THEN a ELSE b

Last(s) == s[Len(s)]

RECURSIVE SumSeq(_)
SumSeq(s) == IF s = <<>> THEN 0 ELSE Head(s) + SumSeq(Tail(s))

Range(s) == {s[i] : i \in DOMAIN s}

SeqsUpTo(S, n) == UNION {[1..k -> S] : k \in 0..n}

NoText == "<absent>"
Stamp == "ts"

\* safe_int(str(value), fallback) on a raw number field
safe_int(raw, fallback) == IF Len(raw) = 1 THEN raw[1] ELSE fallback

\* str.strip() on the texts the requests of the model carry
StripTable ==
  [t \in {" late ", "  ", " pickup", "READY ", " Ann "} |->
     CASE t = " late " -> "late"
       [] t = "  " -> ""
       [] t = " pickup" -> "pickup"
       [] t = "READY " -> "READY"
       [] t = " Ann " -> "Ann"]

clean_str(value) ==
  IF value = NoText THEN ""
  ELSE IF value \in DOMAIN StripTable THEN StripTable[value]
  ELSE value

\* str.lower() on the texts the requests of the model carry
LowerTable ==
  [t \in {"READY", "COMPLETED", "Cancelled", "CARD", "Card"} |->
     CASE t = "READY" -> "ready"
       [] t = "COMPLETED" -> "completed"
       [] t = "Cancelled" -> "cancelled"
       [] t = "CARD" -> "card"
       [] t = "Card" -> "card"]

lower(value) == IF value \in DOMAIN LowerTable THEN LowerTable[value] ELSE value

(***************************************************************************)
(* Order status machine.                                                   *)
(***************************************************************************)
ORDER_STATUS_FLOW ==
  <<"new", "paid", "accepted", "cooking", "ready", "delivering", "completed", "cancelled">>

ORDER_STATUS_LABELS == {ORDER_STATUS_FLOW[i] : i \in DOMAIN ORDER_STATUS_FLOW}

\* mutant: a completed order can still be cancelled
ORDER_STATUS_TRANSITIONS_reopen ==
  [s \in ORDER_STATUS_LABELS |->
     CASE s = "new" -> {"accepted", "cancelled"}
       [] s = "paid" -> {"accepted", "cancelled"}
       [] s = "accepted" -> {"cooking", "cancelled"}
       [] s = "cooking" -> {"ready", "cancelled"}
       [] s = "ready" -> {"delivering", "completed", "cancelled"}
       [] s = "delivering" -> {"completed", "cancelled"}
       [] s = "completed" -> {"cancelled"}
       [] s = "cancelled" -> {}]

\* mutant: a ready order is completed through delivery only
ORDER_STATUS_TRANSITIONS_via_delivery ==
  [s \in ORDER_STATUS_LABELS |->
     CASE s = "new" -> {"accepted", "cancelled"}
       [] s = "paid" -> {"accepted", "cancelled"}
       [] s = "accepted" -> {"cooking", "cancelled"}
       [] s = "cooking" -> {"ready", "cancelled"}
       [] s = "ready" -> {"delivering", "cancelled"}
       [] s = "delivering" -> {"completed", "cancelled"}
       [] s = "completed" -> {}
       [] s = "cancelled" -> {}]

\* mutant: an order on its way can be handed back to the cook
ORDER_STATUS_TRANSITIONS_back ==
  [s \in ORDER_STATUS_LABELS |->
     CASE s = "new" -> {"accepted", "cancelled"}
       [] s = "paid" -> {"accepted", "cancelled"}
       [] s = "accepted" -> {"cooking", "cancelled"}
       [] s = "cooking" -> {"ready", "cancelled"}
       [] s = "ready" -> {"delivering", "completed", "cancelled"}
       [] s = "delivering" -> {"ready", "completed", "cancelled"}
       [] s = "completed" -> {}
       [] s = "cancelled" -> {}]

ORDER_STATUS_TRANSITIONS ==
  [s \in ORDER_STATUS_LABELS |->
     CASE s = "new" -> {"accepted", "cancelled"}
       [] s = "paid" -> {"accepted", "cancelled"}
       [] s = "accepted" -> {"cooking", "cancelled"}
       [] s = "cooking" -> {"ready", "cancelled"}
       [] s = "ready" -> {"delivering", "completed", "cancelled"}
       [] s = "delivering" -> {"completed", "cancelled"}
       [] s = "completed" -> {}
       [] s = "cancelled" -> {}]

normalize_order_status(status) ==
  LET value == lower(clean_str(status))
  IN  IF value \in ORDER_STATUS_LABELS THEN value ELSE "new"

\* the normalized events of a stored history; a stored history that is
\* missing or empty gives one synthesized event
order_status_history(order) ==
  IF order.status_history # <<>>
  THEN [i \in DOMAIN order.status_history |->
          LET event == order.status_history[i]
          IN  [status |-> normalize_order_status(event.status),
               at |-> IF clean_str(event.at) # "" THEN clean_str(event.at)
                      ELSE clean_str(order.created_at),
               by |-> IF clean_str(event.by) # "" THEN clean_str(event.by) ELSE "system",
               note |-> clean_str(event.note)]]
  ELSE <<[status |-> normalize_order_status(order.status),
          at |-> IF clean_str(order.created_at) # "" THEN clean_str(order.created_at)
                 ELSE Stamp,
          by |-> "system",
          note |-> ""]>>

\* mutant: the event is put in front of the history
append_order_status_history_prepend(order, status, actor, note) ==
  [order EXCEPT !.status_history =
     <<[status |-> normalize_order_status(status),
        at |-> Stamp,
        by |-> IF clean_str(actor) # "" THEN clean_str(actor) ELSE "system",
        note |-> clean_str(note)]>> \o order_status_history(order)]

\* mutant: the event does not carry the actor
append_order_status_history_system(order, status, actor, note) ==
  [order EXCEPT !.status_history =
     Append(order_status_history(order),
            [status |-> normalize_order_status(status),
             at |-> Stamp,
             by |-> "system",
             note |-> clean_str(note)])]

\* the order with the event appended to its (normalized) history
append_order_status_history(order, status, actor, note) ==
  [order EXCEPT !.status_history =
     Append(order_status_history(order),
            [status |-> normalize_order_status(status),
             at |-> Stamp,
             by |-> IF clean_str(actor) # "" THEN clean_str(actor) ELSE "system",
             note |-> clean_str(note)])]

\* mutant: delivering is not suppressed for a pickup order
order_allows_status_any_mode(order, next_status) ==
  LET current == normalize_order_status(order.status)
  IN  next_status = current \/ next_status \in ORDER_STATUS_TRANSITIONS[current]

\* mutant: the status an order already has is not accepted
order_allows_status_no_self(order, next_status) ==
  LET current == normalize_order_status(order.status)
      allowed == ORDER_STATUS_TRANSITIONS[current]
  IN  next_status \in
        (IF current = "ready" /\ clean_str(order.delivery_mode) = "pickup"
         THEN allowed \ {"delivering"} ELSE allowed)

order_allows_status(order, next_status) ==
  LET current == normalize_order_status(order.status)
      allowed == ORDER_STATUS_TRANSITIONS[current]
  IN  \/ next_status = current
      \/ next_status \in
           (IF current = "ready" /\ clean_str(order.delivery_mode) = "pickup"
            THEN allowed \ {"delivering"} ELSE allowed)

\* mutant: delivering is listed for a pickup order too
next_statuses_any_mode(order) ==
  LET status == normalize_order_status(order.status)
      allowed == ORDER_STATUS_TRANSITIONS[status]
      listed(s) == s \in allowed
  IN  SelectSeq(ORDER_STATUS_FLOW, listed)

\* the next_statuses field of enrich_order
next_statuses(order) ==
  LET status == normalize_order_status(order.status)
      allowed ==
        IF status = "ready" /\ clean_str(order.delivery_mode) = "pickup"
        THEN ORDER_STATUS_TRANSITIONS[status] \ {"delivering"}
        ELSE ORDER_STATUS_TRANSITIONS[status]
      listed(s) == s \in allowed
  IN  SelectSeq(ORDER_STATUS_FLOW, listed)

\* mutant: the stored status is shown as it is
enrich_order_raw_status(order) ==
  [f \in DOMAIN order \cup {"next_statuses"} |->
     IF f = "status_history" THEN order_status_history(order)
     ELSE IF f = "next_statuses" THEN next_statuses(order)
     ELSE order[f]]

\* the order as the read endpoints and the status update show it, without
\* the labels and the totals
enrich_order(order) ==
  LET item == [order EXCEPT !.status = normalize_order_status(order.status)]
  IN  [f \in DOMAIN order \cup {"next_statuses"} |->
         IF f = "status_history" THEN order_status_history(item)
         ELSE IF f = "next_statuses" THEN next_statuses(item)
         ELSE item[f]]

(***************************************************************************)
(* Dish availability.                                                      *)
(***************************************************************************)
valid_hhmm(value) ==
  \/ value = <<>>
  \/ /\ Len(value) = 2
     /\ 0 <= value[1] /\ value[1] <= 23
     /\ 0 <= value[2] /\ value[2] <= 59

\* mutant: the minutes of the bound are dropped
hhmm_to_minutes_hours_only(value) ==
  IF ~valid_hhmm(value) \/ value = <<>> THEN -1 ELSE value[1] * 60

hhmm_to_minutes(value) ==
  IF ~valid_hhmm(value) \/ value = <<>> THEN -1 ELSE value[1] * 60 + value[2]

dish_portions_available(dish) == Max(0, dish.portions_available)

\* mutant: the two ends of the window are left out of it
dish_is_time_available_open(dish, now_minutes) ==
  LET from_minutes == hhmm_to_minutes(dish.available_from)
      until_minutes == hhmm_to_minutes(dish.available_until)
  IN  /\ ~(from_minutes >= 0 /\ now_minutes <= from_minutes)
      /\ ~(until_minutes >= 0 /\ now_minutes >= until_minutes)

dish_is_time_available(dish, now_minutes) ==
  LET from_minutes == hhmm_to_minutes(dish.available_from)
      until_minutes == hhmm_to_minutes(dish.available_until)
  IN  /\ ~(from_minutes >= 0 /\ now_minutes < from_minutes)
      /\ ~(until_minutes >= 0 /\ now_minutes > until_minutes)

\* the is_available field of dish_availability
dish_availability(dish, now_minutes) ==
  dish_portions_available(dish) > 0 /\ dish_is_time_available(dish, now_minutes)

(***************************************************************************)
(* Mock payment gateway.                                                   *)
(***************************************************************************)
IsDigit(char) == char \in 0..9

\* a character that is no digit
Letter == 10

digits_only(value) == SelectSeq(value, IsDigit)

\* str.strip() of a text given as a sequence of characters
RECURSIVE lstrip(_)
lstrip(text) ==
  IF text # <<>> /\ Head(text) = " " THEN lstrip(Tail(text)) ELSE text

RECURSIVE rstrip(_)
rstrip(text) ==
  IF text # <<>> /\ Last(text) = " " THEN rstrip(SubSeq(text, 1, Len(text) - 1)) ELSE text

strip(text) == rstrip(lstrip(text))

startswith(value, prefix) ==
  Len(value) >= Len(prefix) /\ SubSeq(value, 1, Len(prefix)) = prefix

\* mutant: the mask shows the first six digits
mask_card_number_first6(value) ==
  IF Len(value) < 8 THEN [first4 |-> <<>>, last4 |-> <<>>]
  ELSE [first4 |-> SubSeq(value, 1, 6), last4 |-> SubSeq(value, Len(value) - 3, Len(value))]

mask_card_number(value) ==
  IF Len(value) < 8 THEN [first4 |-> <<>>, last4 |-> <<>>]
  ELSE [first4 |-> SubSeq(value, 1, 4), last4 |-> SubSeq(value, Len(value) - 3, Len(value))]

card_brand(value) ==
  IF startswith(value, <<4>>) THEN "VISA"
  ELSE IF \E d \in 1..5 : startswith(value, <<5, d>>) THEN "MASTERCARD"
  ELSE IF startswith(value, <<3, 4>>) \/ startswith(value, <<3, 7>>) THEN "AMEX"
  ELSE IF startswith(value, <<2, 2, 0, 0>>) THEN "MIR"
  ELSE "CARD"

\* mutant: the digits doubled are those of a number of even length
luhn_digit_even_length(value, index) ==
  LET digit == value[index + 1]
  IN  IF index % 2 = 0
      THEN (IF digit * 2 > 9 THEN digit * 2 - 9 ELSE digit * 2)
      ELSE digit

\* index is the 0-based position of enumerate()
luhn_digit(value, index) ==
  LET digit == value[index + 1]
      parity == Len(value) % 2
  IN  IF index % 2 = parity
      THEN (IF digit * 2 > 9 THEN digit * 2 - 9 ELSE digit * 2)
      ELSE digit

valid_card_luhn(value) ==
  /\ value # <<>>
  /\ \A i \in DOMAIN value : IsDigit(value[i])
  /\ SumSeq([i \in DOMAIN value |-> luhn_digit(value, i - 1)]) % 10 = 0

\* value[-4:]
last4(value) == SubSeq(value, Max(1, Len(value) - 3), Len(value))

NoPaymentData ==
  [method |-> "", card_brand |-> "", card_masked |-> mask_card_number(<<>>),
   card_last4 |-> <<>>, holder |-> <<>>, amount |-> 0, currency |-> ""]

\* mutant: the CVC is not checked
validate_payment_payload_no_cvc(payload, expected_amount, today) ==
  LET payment == payload.payment
      method == lower(clean_str(payment.method))
      card_number == digits_only(payment.card_number)
      exp_month == safe_int(payment.exp_month, 0)
      exp_year == safe_int(payment.exp_year, 0)
      cvc == digits_only(payment.cvc)
      holder == strip(payment.holder)
      failed(code) == [data |-> NoPaymentData, error |-> code]
  IN  IF ~payment.is_dict THEN failed("payment_required")
      ELSE IF method # "card" THEN failed("payment_method_not_supported")
      ELSE IF Len(card_number) < 13 \/ Len(card_number) > 19 THEN failed("card_number_invalid")
      ELSE IF ~valid_card_luhn(card_number) THEN failed("card_number_invalid")
      ELSE IF exp_month < 1 \/ exp_month > 12 THEN failed("card_expiry_invalid")
      ELSE IF exp_year < 2000 \/ exp_year > 2100 THEN failed("card_expiry_invalid")
      ELSE IF Len(holder) < 2 THEN failed("card_holder_invalid")
      ELSE IF \/ exp_year < today.year
              \/ (exp_year = today.year /\ exp_month < today.month)
           THEN failed("card_expired")
      ELSE [data |-> [method |-> "card",
                      card_brand |-> card_brand(card_number),
                      card_masked |-> mask_card_number(card_number),
                      card_last4 |-> last4(card_number),
                      holder |-> holder,
                      amount |-> expected_amount,
                      currency |-> "RUB"],
            error |-> ""]

\* mutant: a card that expires this month is expired already
validate_payment_payload_this_month(payload, expected_amount, today) ==
  LET payment == payload.payment
      method == lower(clean_str(payment.method))
      card_number == digits_only(payment.card_number)
      exp_month == safe_int(payment.exp_month, 0)
      exp_year == safe_int(payment.exp_year, 0)
      cvc == digits_only(payment.cvc)
      holder == strip(payment.holder)
      failed(code) == [data |-> NoPaymentData, error |-> code]
  IN  IF ~payment.is_dict THEN failed("payment_required")
      ELSE IF method # "card" THEN failed("payment_method_not_supported")
      ELSE IF Len(card_number) < 13 \/ Len(card_number) > 19 THEN failed("card_number_invalid")
      ELSE IF ~valid_card_luhn(card_number) THEN failed("card_number_invalid")
      ELSE IF exp_month < 1 \/ exp_month > 12 THEN failed("card_expiry_invalid")
      ELSE IF exp_year < 2000 \/ exp_year > 2100 THEN failed("card_expiry_invalid")
      ELSE IF Len(cvc) < 3 \/ Len(cvc) > 4 THEN failed("card_cvc_invalid")
      ELSE IF Len(holder) < 2 THEN failed("card_holder_invalid")
      ELSE IF \/ exp_year < today.year
              \/ (exp_year = today.year /\ exp_month <= today.month)
           THEN failed("card_expired")
      ELSE [data |-> [method |-> "card",
                      card_brand |-> card_brand(card_number),
                      card_masked |-> mask_card_number(card_number),
                      card_last4 |-> last4(card_number),
                      holder |-> holder,
                      amount |-> expected_amount,
                      currency |-> "RUB"],
            error |-> ""]

validate_payment_payload(payload, expected_amount, today) ==
  LET payment == payload.payment
      method == lower(clean_str(payment.method))
      card_number == digits_only(payment.card_number)
      exp_month == safe_int(payment.exp_month, 0)
      exp_year == safe_int(payment.exp_year, 0)
      cvc == digits_only(payment.cvc)
      holder == strip(payment.holder)
      failed(code) == [data |-> NoPaymentData, error |-> code]
  IN  IF ~payment.is_dict THEN failed("payment_required")
      ELSE IF method # "card" THEN failed("payment_method_not_supported")
      ELSE IF Len(card_number) < 13 \/ Len(card_number) > 19 THEN failed("card_number_invalid")
      ELSE IF ~valid_card_luhn(card_number) THEN failed("card_number_invalid")
      ELSE IF exp_month < 1 \/ exp_month > 12 THEN failed("card_expiry_invalid")
      ELSE IF exp_year < 2000 \/ exp_year > 2100 THEN failed("card_expiry_invalid")
      ELSE IF Len(cvc) < 3 \/ Len(cvc) > 4 THEN failed("card_cvc_invalid")
      ELSE IF Len(holder) < 2 THEN failed("card_holder_invalid")
      ELSE IF \/ exp_year < today.year
              \/ (exp_year = today.year /\ exp_month < today.month)
           THEN failed("card_expired")
      ELSE [data |-> [method |-> "card",
                      card_brand |-> card_brand(card_number),
                      card_masked |-> mask_card_number(card_number),
                      card_last4 |-> last4(card_number),
                      holder |-> holder,
                      amount |-> expected_amount,
                      currency |-> "RUB"],
            error |-> ""]

\* the n of an "ORD-YYYYMMDD-NNNN" / "PAY-YYYYMMDD-NNNN" id is the length of
\* the collection plus one
\* mutant: the id is made of the count of the orders, the new one not counted
next_order_id_no_increment(orders_read) ==
  <<"ORD", Max(1, Len(orders_read))>>

next_order_id(orders_read) == <<"ORD", Len(orders_read) + 1>>

next_payment_id(payments_read) == <<"PAY", Len(payments_read) + 1>>

\* mutant: the payment is recorded as pending
create_payment_record_pending(order_id, payment_data, payments_read) ==
  Append(payments_read,
         [id |-> next_payment_id(payments_read),
          order_id |-> order_id,
          status |-> "pending",
          method |-> payment_data.method,
          card_brand |-> payment_data.card_brand,
          card_masked |-> payment_data.card_masked,
          card_last4 |-> payment_data.card_last4,
          holder |-> payment_data.holder,
          amount |-> payment_data.amount,
          currency |-> payment_data.currency,
          created_at |-> Stamp])

\* mutant: the payment is written alone, without the payments read
create_payment_record_alone(order_id, payment_data, payments_read) ==
  <<[id |-> next_payment_id(payments_read),
     order_id |-> order_id,
     status |-> "captured",
     method |-> payment_data.method,
     card_brand |-> payment_data.card_brand,
     card_masked |-> payment_data.card_masked,
     card_last4 |-> payment_data.card_last4,
     holder |-> payment_data.holder,
     amount |-> payment_data.amount,
     currency |-> payment_data.currency,
     created_at |-> Stamp]>>

\* mutant: the payment names the order by the count of the payments
create_payment_record_miscounted(order_id, payment_data, payments_read) ==
  Append(payments_read,
         [id |-> next_payment_id(payments_read),
          order_id |-> <<"ORD", Len(payments_read) + 1>>,
          status |-> "captured",
          method |-> payment_data.method,
          card_brand |-> payment_data.card_brand,
          card_masked |-> payment_data.card_masked,
          card_last4 |-> payment_data.card_last4,
          holder |-> payment_data.holder,
          amount |-> payment_data.amount,
          currency |-> payment_data.currency,
          created_at |-> Stamp])

\* the payments collection after create_payment_record; the record is its last
create_payment_record(order_id, payment_data, payments_read) ==
  Append(payments_read,
         [id |-> next_payment_id(payments_read),
          order_id |-> order_id,
          status |-> "captured",
          method |-> payment_data.method,
          card_brand |-> payment_data.card_brand,
          card_masked |-> payment_data.card_masked,
          card_last4 |-> payment_data.card_last4,
          holder |-> payment_data.holder,
          amount |-> payment_data.amount,
          currency |-> payment_data.currency,
          created_at |-> Stamp])

(***************************************************************************)
(* Checkout.                                                               *)
(***************************************************************************)
\* dish_map.get(dish_id): the index in the collection of the dish the map
\* holds for the id (a later dish with the same id replaces an earlier one),
\* 0 when the map has none
dish_map(dishes_read, dish_id) ==
  LET hits == {k \in DOMAIN dishes_read : dishes_read[k].id = dish_id /\ dishes_read[k].id > 0}
  IN  IF hits = {} THEN 0 ELSE CHOOSE k \in hits : \A j \in hits : j <= k

\* the error of one cart row, "" when the row is valid
checkout_row_error(row, dishes_read, now_minutes) ==
  LET dish_id == safe_int(row.dish_id, -1)
      qty == safe_int(row.qty, 0)
      k == dish_map(dishes_read, dish_id)
  IN  IF ~row.is_dict THEN "items_invalid"
      ELSE IF dish_id <= 0 \/ qty <= 0 THEN "items_invalid"
      ELSE IF k = 0 THEN "dish_not_found"
      ELSE IF ~dish_availability(dishes_read[k], now_minutes) THEN "dish_unavailable"
      ELSE IF qty > dish_portions_available(dishes_read[k]) THEN "dish_stock_not_enough"
      ELSE ""

\* mutant: a row that fails is skipped and the rows that pass are kept
RECURSIVE validate_checkout_rows_skip(_, _, _)
validate_checkout_rows_skip(rows, dishes_read, now_minutes) ==
  IF rows = <<>> THEN [rows |-> <<>>, error |-> ""]
  ELSE LET error == checkout_row_error(Head(rows), dishes_read, now_minutes)
           rest == validate_checkout_rows_skip(Tail(rows), dishes_read, now_minutes)
       IN  IF error # "" THEN rest
           ELSE [rows |-> <<[dish |-> dish_map(dishes_read, safe_int(Head(rows).dish_id, -1)),
                             qty |-> safe_int(Head(rows).qty, 0)]>> \o rest.rows,
                 error |-> ""]

RECURSIVE validate_checkout_rows(_, _, _)
validate_checkout_rows(rows, dishes_read, now_minutes) ==
  IF rows = <<>> THEN [rows |-> <<>>, error |-> ""]
  ELSE LET error == checkout_row_error(Head(rows), dishes_read, now_minutes)
           rest == validate_checkout_rows(Tail(rows), dishes_read, now_minutes)
       IN  IF error # "" THEN [rows |-> <<>>, error |-> error]
           ELSE IF rest.error # "" THEN [rows |-> <<>>, error |-> rest.error]
           ELSE [rows |-> <<[dish |-> dish_map(dishes_read, safe_int(Head(rows).dish_id, -1)),
                             qty |-> safe_int(Head(rows).qty, 0)]>> \o rest.rows,
                 error |-> ""]

\* a validated row names its dish by the dish's index in the collection read
validate_checkout_items(payload_items, dishes_read, now_minutes) ==
  IF ~payload_items.is_list \/ payload_items.rows = <<>>
  THEN [rows |-> <<>>, error |-> "items_required"]
  ELSE validate_checkout_rows(payload_items.rows, dishes_read, now_minutes)

\* mutant: a request that names no delivery mode is not given pickup
checkout_delivery_mode_no_default(payload) ==
  clean_str(payload.delivery_mode)

checkout_delivery_mode(payload) ==
  IF clean_str(payload.delivery_mode) # "" THEN clean_str(payload.delivery_mode) ELSE "pickup"

\* the order lines built from the validated rows
checkout_items(checkout_rows, dishes_read) ==
  [i \in DOMAIN checkout_rows |->
     LET dish == dishes_read[checkout_rows[i].dish]
         qty == checkout_rows[i].qty
     IN  [dish_id |-> dish.id,
          cook_id |-> dish.cook_id,
          qty |-> qty,
          unit_price |-> dish.price,
          subtotal |-> dish.price * qty]]

\* mutant: the quantity of a row is left out of the total
checkout_total_no_qty(checkout_rows, dishes_read) ==
  SumSeq([i \in DOMAIN checkout_rows |-> dishes_read[checkout_rows[i].dish].price])

checkout_total(checkout_rows, dishes_read) ==
  SumSeq([i \in DOMAIN checkout_rows |->
            dishes_read[checkout_rows[i].dish].price * checkout_rows[i].qty])

\* mutant: the stock is not floored at 0
RECURSIVE decrement_stock_no_floor(_, _)
decrement_stock_no_floor(dishes_read, checkout_rows) ==
  IF checkout_rows = <<>> THEN dishes_read
  ELSE LET k == Head(checkout_rows).dish
           qty == Head(checkout_rows).qty
       IN  decrement_stock_no_floor(
             [dishes_read EXCEPT ![k].portions_available =
                dish_portions_available(dishes_read[k]) - qty],
             Tail(checkout_rows))

\* the dish collection after the stock of every validated row is taken
RECURSIVE decrement_stock(_, _)
decrement_stock(dishes_read, checkout_rows) ==
  IF checkout_rows = <<>> THEN dishes_read
  ELSE LET k == Head(checkout_rows).dish
           qty == Head(checkout_rows).qty
       IN  decrement_stock(
             [dishes_read EXCEPT ![k].portions_available =
                Max(0, dish_portions_available(dishes_read[k]) - qty)],
             Tail(checkout_rows))

DefaultCustomer == "Gost"

NoSummary == [card_brand |-> "", card_masked |-> mask_card_number(<<>>), amount |-> 0]

Response(code, error) ==
  [code |-> code, error |-> error, current_status |-> "", requested_status |-> ""]

checkout_order(payload, checkout_rows, dishes_read, orders_read, payment) ==
  [id |-> next_order_id(orders_read),
   items |-> checkout_items(checkout_rows, dishes_read),
   dish_id |-> 0,
   qty |-> 0,
   price |-> 0,
   total_price |-> checkout_total(checkout_rows, dishes_read),
   customer_name |-> IF clean_str(payload.customer_name) # ""
                     THEN clean_str(payload.customer_name) ELSE DefaultCustomer,
   delivery_mode |-> checkout_delivery_mode(payload),
   status |-> "paid",
   status_history |-> <<[status |-> "paid", at |-> Stamp, by |-> "payment",
                         note |-> "payment confirmed"]>>,
   created_at |-> Stamp,
   completed_at |-> "",
   cancelled_at |-> "",
   payment_id |-> payment.id,
   payment_status |-> payment.status,
   payment_summary |-> [card_brand |-> payment.card_brand,
                        card_masked |-> payment.card_masked,
                        amount |-> payment.amount]]

\* mutant: the stock is taken and written before the payment is validated
checkout_stock_first(payload, now_minutes, today, dishes_read, orders_read, payments_read) ==
  LET validated == validate_checkout_items(payload.items, dishes_read, now_minutes)
      checkout_rows == validated.rows
      delivery_mode == checkout_delivery_mode(payload)
      total == checkout_total(checkout_rows, dishes_read)
      paid == validate_payment_payload(payload, total, today)
      payments_written ==
        create_payment_record(next_order_id(orders_read), paid.data, payments_read)
      order == checkout_order(payload, checkout_rows, dishes_read, orders_read,
                              Last(payments_written))
      rejected(error) ==
        [dishes |-> dishes_read, orders |-> orders_read, payments |-> payments_read,
         resp |-> Response(400, error)]
  IN  IF validated.error # "" THEN rejected(validated.error)
      ELSE IF delivery_mode \notin {"pickup", "cook", "courier"}
           THEN rejected("delivery_mode_invalid")
      ELSE IF \E i \in DOMAIN checkout_rows :
                delivery_mode \notin Range(dishes_read[checkout_rows[i].dish].delivery)
           THEN rejected("delivery_mode_not_available")
      ELSE IF paid.error # ""
           THEN [rejected(paid.error) EXCEPT
                   !.dishes = decrement_stock(dishes_read, checkout_rows)]
      ELSE [dishes |-> decrement_stock(dishes_read, checkout_rows),
            orders |-> Append(orders_read, order),
            payments |-> payments_written,
            resp |-> Response(201, "")]

\* the collections and the response after handle_checkout
checkout(payload, now_minutes, today, dishes_read, orders_read, payments_read) ==
  LET validated == validate_checkout_items(payload.items, dishes_read, now_minutes)
      checkout_rows == validated.rows
      delivery_mode == checkout_delivery_mode(payload)
      total == checkout_total(checkout_rows, dishes_read)
      paid == validate_payment_payload(payload, total, today)
      payments_written ==
        create_payment_record(next_order_id(orders_read), paid.data, payments_read)
      order == checkout_order(payload, checkout_rows, dishes_read, orders_read,
                              Last(payments_written))
      rejected(error) ==
        [dishes |-> dishes_read, orders |-> orders_read, payments |-> payments_read,
         resp |-> Response(400, error)]
  IN  IF validated.error # "" THEN rejected(validated.error)
      ELSE IF delivery_mode \notin {"pickup", "cook", "courier"}
           THEN rejected("delivery_mode_invalid")
      ELSE IF \E i \in DOMAIN checkout_rows :
                delivery_mode \notin Range(dishes_read[checkout_rows[i].dish].delivery)
           THEN rejected("delivery_mode_not_available")
      ELSE IF paid.error # "" THEN rejected(paid.error)
      ELSE [dishes |-> decrement_stock(dishes_read, checkout_rows),
            orders |-> Append(orders_read, order),
            payments |-> payments_written,
            resp |-> Response(201, "")]

(***************************************************************************)
(* Order status update.                                                    *)
(***************************************************************************)
\* mutant: an id that matches no order falls back on the first order
find_order_fallback(orders_read, order_id) ==
  LET hits == {i \in DOMAIN orders_read : orders_read[i].id = order_id}
  IN  IF hits = {} THEN (IF orders_read = <<>> THEN 0 ELSE 1)
      ELSE CHOOSE i \in hits : \A j \in hits : i <= j

\* the index of the first order whose id is order_id, 0 when there is none
find_order(orders_read, order_id) ==
  LET hits == {i \in DOMAIN orders_read : orders_read[i].id = order_id}
  IN  IF hits = {} THEN 0 ELSE CHOOSE i \in hits : \A j \in hits : i <= j

\* mutant: a cancelled order is cut loose from its payment
apply_status_unlink_payment(target, requested_status, actor, note) ==
  LET moved == append_order_status_history(
                 [target EXCEPT !.status = requested_status],
                 requested_status, actor, note)
  IN  [moved EXCEPT
         !.completed_at = IF requested_status = "completed" THEN Stamp ELSE @,
         !.cancelled_at = IF requested_status = "cancelled" THEN Stamp ELSE @,
         !.payment_id = IF requested_status = "cancelled" THEN <<>> ELSE @]

\* mutant: an order is stamped as completed when it leaves for delivery
apply_status_stamp_early(target, requested_status, actor, note) ==
  LET moved == append_order_status_history(
                 [target EXCEPT !.status = requested_status],
                 requested_status, actor, note)
  IN  [moved EXCEPT
         !.completed_at = IF requested_status \in {"completed", "delivering"}
                          THEN Stamp ELSE @,
         !.cancelled_at = IF requested_status = "cancelled" THEN Stamp ELSE @]

\* the target after an accepted request for a different status
apply_status(target, requested_status, actor, note) ==
  LET moved == append_order_status_history(
                 [target EXCEPT !.status = requested_status],
                 requested_status, actor, note)
  IN  [moved EXCEPT
         !.completed_at = IF requested_status = "completed" THEN Stamp ELSE @,
         !.cancelled_at = IF requested_status = "cancelled" THEN Stamp ELSE @]

\* mutant: a request for the status that the order has is recorded too
update_order_status_repeat(order_id, payload, orders_read) ==
  LET requested_status == lower(clean_str(payload.status))
      actor == IF clean_str(payload.actor) # "" THEN clean_str(payload.actor) ELSE "cook"
      note == clean_str(payload.note)
      i == find_order(orders_read, order_id)
      current_status == normalize_order_status(orders_read[i].status)
  IN  IF requested_status \notin ORDER_STATUS_LABELS
      THEN [orders |-> orders_read, resp |-> Response(400, "status_invalid")]
      ELSE IF i = 0
      THEN [orders |-> orders_read, resp |-> Response(404, "order_not_found")]
      ELSE IF ~order_allows_status(orders_read[i], requested_status)
      THEN [orders |-> orders_read,
            resp |-> [code |-> 400, error |-> "status_transition_invalid",
                      current_status |-> current_status,
                      requested_status |-> requested_status]]
      ELSE IF TRUE
      THEN [orders |-> [orders_read EXCEPT
                          ![i] = apply_status(orders_read[i], requested_status, actor, note)],
            resp |-> Response(200, "")]
      ELSE [orders |-> orders_read, resp |-> Response(200, "")]

\* the orders collection and the response after handle_update_order_status
update_order_status(order_id, payload, orders_read) ==
  LET requested_status == lower(clean_str(payload.status))
      actor == IF clean_str(payload.actor) # "" THEN clean_str(payload.actor) ELSE "cook"
      note == clean_str(payload.note)
      i == find_order(orders_read, order_id)
      current_status == normalize_order_status(orders_read[i].status)
  IN  IF requested_status \notin ORDER_STATUS_LABELS
      THEN [orders |-> orders_read, resp |-> Response(400, "status_invalid")]
      ELSE IF i = 0
      THEN [orders |-> orders_read, resp |-> Response(404, "order_not_found")]
      ELSE IF ~order_allows_status(orders_read[i], requested_status)
      THEN [orders |-> orders_read,
            resp |-> [code |-> 400, error |-> "status_transition_invalid",
                      current_status |-> current_status,
                      requested_status |-> requested_status]]
      ELSE IF current_status # requested_status
      THEN [orders |-> [orders_read EXCEPT
                          ![i] = apply_status(orders_read[i], requested_status, actor, note)],
            resp |-> Response(200, "")]
      ELSE [orders |-> orders_read, resp |-> Response(200, "")]

(***************************************************************************)
(* Single-dish order creation (the older endpoint).                        *)
(***************************************************************************)
\* the index of the first dish whose id is dish_id, 0 when there is none
find_dish(dishes_read, dish_id) ==
  LET hits == {k \in DOMAIN dishes_read : dishes_read[k].id = dish_id}
  IN  IF hits = {} THEN 0 ELSE CHOOSE k \in hits : \A j \in hits : k <= j

create_order_delivery_mode(payload, dish) ==
  IF payload.delivery_mode \notin {NoText, ""} THEN payload.delivery_mode
  ELSE IF dish.delivery # <<>> THEN dish.delivery[1]
  ELSE "pickup"

\* the collections and the response after handle_create_order
create_order(payload, now_minutes, dishes_read, orders_read) ==
  LET k == find_dish(dishes_read, safe_int(payload.dish_id, 0))
      dish == dishes_read[k]
      delivery_mode == create_order_delivery_mode(payload, dish)
      qty == safe_int(payload.qty, 1)
      rejected(code, error) ==
        [dishes |-> dishes_read, orders |-> orders_read, resp |-> Response(code, error)]
      order ==
        [id |-> next_order_id(orders_read),
         items |-> <<>>,
         dish_id |-> dish.id,
         qty |-> qty,
         price |-> dish.price,
         total_price |-> dish.price * qty,
         customer_name |-> IF payload.customer_name = NoText THEN DefaultCustomer
                           ELSE payload.customer_name,
         delivery_mode |-> delivery_mode,
         status |-> "new",
         status_history |-> <<[status |-> "new", at |-> Stamp, by |-> "customer",
                               note |-> "order created"]>>,
         created_at |-> Stamp,
         completed_at |-> "",
         cancelled_at |-> "",
         payment_id |-> <<>>,
         payment_status |-> "",
         payment_summary |-> NoSummary]
  IN  IF ~payload.has_dish_id THEN rejected(400, "dish_id_required")
      ELSE IF payload.dish_id = <<>> THEN rejected(400, "dish_id_invalid")
      ELSE IF k = 0 THEN rejected(404, "dish_not_found")
      ELSE IF ~dish_availability(dish, now_minutes) THEN rejected(400, "dish_unavailable")
      ELSE IF delivery_mode \notin Range(dish.delivery)
           THEN rejected(400, "delivery_mode_not_available")
      ELSE IF qty <= 0 THEN rejected(400, "qty_invalid")
      ELSE IF qty > dish_portions_available(dish) THEN rejected(400, "dish_stock_not_enough")
      ELSE [dishes |-> [dishes_read EXCEPT ![k].portions_available =
                          Max(0, dish_portions_available(dish) - qty)],
            orders |-> Append(orders_read, order),
            resp |-> Response(201, "")]

(***************************************************************************)
(* Dish creation.  A form field that holds a number is <<n>>, <<>> when it *)
(* is missing or not a number; the delivery modes of the form come sorted. *)
(***************************************************************************)
\* cooks.json, the reference data of the cooks
Cooks ==
  <<[id |-> 1, delivery_modes |-> <<"pickup", "courier">>],
    [id |-> 2, delivery_modes |-> <<>>]>>

cook_delivery_modes(cook) ==
  IF cook.delivery_modes # <<>> THEN cook.delivery_modes ELSE <<"pickup">>

\* mutant: the id is the number of the dishes plus one
next_dish_id_count(dishes_read) == Len(dishes_read) + 1

next_dish_id(dishes_read) ==
  IF dishes_read = <<>> THEN 1
  ELSE (CHOOSE m \in {dishes_read[k].id : k \in DOMAIN dishes_read} :
          \A k \in DOMAIN dishes_read : dishes_read[k].id <= m) + 1

\* the index of the first cook whose id is cook_id, 0 when there is none
find_cook(cook_id) ==
  LET hits == {c \in DOMAIN Cooks : Cooks[c].id = cook_id}
  IN  IF hits = {} THEN 0 ELSE CHOOSE c \in hits : \A j \in hits : c <= j

\* the dish collection and the response after handle_create_dish
create_dish(form, dishes_read) ==
  LET title == clean_str(form.title)
      cook_id == safe_int(form.cook_id, -1)
      price == safe_int(form.price, 0)
      grams == safe_int(form.portion_grams, 0)
      wait_minutes == safe_int(form.wait_minutes, 40)
      portions_available == safe_int(form.portions_available, 0)
      available_from == form.available_from
      available_until == form.available_until
      delivery == form.delivery
      c == find_cook(cook_id)
      rejected(code, error) == [dishes |-> dishes_read, resp |-> Response(code, error)]
      dish ==
        [id |-> next_dish_id(dishes_read),
         cook_id |-> Cooks[c].id,
         price |-> price,
         delivery |-> IF delivery # <<>> THEN delivery ELSE cook_delivery_modes(Cooks[c]),
         portions_available |-> portions_available,
         available_from |-> available_from,
         available_until |-> available_until]
  IN  IF ~form.is_multipart THEN rejected(400, "multipart_required")
      ELSE IF title = "" THEN rejected(400, "title_required")
      ELSE IF cook_id <= 0 THEN rejected(400, "cook_id_required")
      ELSE IF price <= 0 THEN rejected(400, "price_invalid")
      ELSE IF grams <= 0 THEN rejected(400, "portion_grams_invalid")
      ELSE IF wait_minutes <= 0 THEN rejected(400, "wait_minutes_invalid")
      ELSE IF portions_available <= 0 THEN rejected(400, "portions_available_invalid")
      ELSE IF ~valid_hhmm(available_from) THEN rejected(400, "available_from_invalid")
      ELSE IF ~valid_hhmm(available_until) THEN rejected(400, "available_until_invalid")
      ELSE IF /\ available_from # <<>>
              /\ available_until # <<>>
              /\ hhmm_to_minutes(available_from) > hhmm_to_minutes(available_until)
           THEN rejected(400, "availability_window_invalid")
      ELSE IF delivery # <<>> /\ ~(Range(delivery) \subseteq {"pickup", "cook", "courier"})
           THEN rejected(400, "delivery_invalid")
      ELSE IF c = 0 THEN rejected(404, "cook_not_found")
      ELSE IF form.image_error # "" THEN rejected(400, form.image_error)
      ELSE [dishes |-> Append(dishes_read, dish), resp |-> Response(201, "")]

(***************************************************************************)
(* Review creation.  A rating is held in hundredths (500 is 5.0), so that  *)
(* round_rating, which keeps two decimals, keeps it as it is.              *)
(***************************************************************************)
next_review_id(reviews_read) == <<"REV", Len(reviews_read) + 1>>

DefaultReviewer == "Pokupatel"

\* the reviews collection and the response after handle_create_review
create_review(payload, dishes_read, reviews_read) ==
  LET dish_id == safe_int(payload.dish_id, -1)
      rating == safe_int(payload.rating, 0)
      text == strip(payload.text)
      k == find_dish(dishes_read, dish_id)
      rejected(code, error) == [reviews |-> reviews_read, resp |-> Response(code, error)]
      review ==
        [id |-> next_review_id(reviews_read),
         dish_id |-> dish_id,
         cook_id |-> dishes_read[k].cook_id,
         order_id |-> payload.order_id,
         customer_name |-> IF clean_str(payload.customer_name) # ""
                           THEN clean_str(payload.customer_name) ELSE DefaultReviewer,
         rating |-> rating,
         text |-> text,
         created_at |-> Stamp]
  IN  IF dish_id <= 0 THEN rejected(400, "dish_id_invalid")
      ELSE IF rating < 100 \/ rating > 500 THEN rejected(400, "rating_invalid")
      ELSE IF Len(text) < 3 THEN rejected(400, "text_too_short")
      ELSE IF k = 0 THEN rejected(404, "dish_not_found")
      ELSE [reviews |-> Append(reviews_read, review), resp |-> Response(201, "")]

(***************************************************************************)
(* The server: one request is handled at a time; a handler reads the       *)
(* collections, writes them back and hands its response to send_json.      *)
(***************************************************************************)
NoReq == [op |-> "none"]
NoResp == Response(0, "")
NoBefore == [dishes |-> <<>>, orders |-> <<>>, payments |-> <<>>, reviews |-> <<>>]
Read == [dishes |-> dishes, orders |-> orders, payments |-> payments, reviews |-> reviews]

\* the threads of the server and a thread that handles no request
Threads == {1, 2}

NoPayload ==
  [items |-> [is_list |-> FALSE, rows |-> <<>>], delivery_mode |-> NoText,
   customer_name |-> NoText,
   payment |-> [is_dict |-> FALSE, method |-> NoText, card_number |-> <<>>,
                exp_month |-> <<>>, exp_year |-> <<>>, cvc |-> <<>>, holder |-> <<>>]]

IdleThread ==
  [pc |-> "idle", payload |-> NoPayload, now_minutes |-> 0,
   today |-> [year |-> 0, month |-> 0],
   raw_dishes |-> <<>>, checkout_rows |-> <<>>, payment_data |-> NoPaymentData,
   orders |-> <<>>, payments |-> <<>>, resp |-> Response(0, "")]

NoThreads == [t \in Threads |-> IdleThread]

InitDishes ==
  <<[id |-> 1, cook_id |-> 1, price |-> 500, delivery |-> <<"pickup", "courier">>,
     portions_available |-> 2, available_from |-> <<>>, available_until |-> <<>>],
    [id |-> 2, cook_id |-> 2, price |-> 300, delivery |-> <<"pickup", "cook">>,
     portions_available |-> 1, available_from |-> <<10, 0>>, available_until |-> <<20, 0>>]>>

Init ==
  /\ dishes = InitDishes
  /\ orders = <<>>
  /\ payments = <<>>
  /\ req = NoReq
  /\ resp = NoResp
  /\ before = NoBefore
  /\ threads = NoThreads
  /\ reviews = <<>>

\* no request is being handled
Idle == req.op = "none"

handle_checkout(payload, now_minutes, today) ==
  /\ Idle
  /\ Len(orders) < MaxOrders
  /\ \E out \in {checkout(payload, now_minutes, today, dishes, orders, payments)} :
         /\ dishes' = out.dishes
         /\ orders' = out.orders
         /\ payments' = out.payments
         /\ resp' = out.resp
  /\ req' = [op |-> "checkout", payload |-> payload, now_minutes |-> now_minutes,
             today |-> today]
  /\ before' = Read
  /\ UNCHANGED <<threads, reviews>>

handle_create_order(payload, now_minutes) ==
  /\ Idle
  /\ Len(orders) < MaxOrders
  /\ \E out \in {create_order(payload, now_minutes, dishes, orders)} :
         /\ dishes' = out.dishes
         /\ orders' = out.orders
         /\ resp' = out.resp
  /\ req' = [op |-> "create_order", payload |-> payload, now_minutes |-> now_minutes]
  /\ before' = Read
  /\ UNCHANGED <<payments, threads, reviews>>

\* mutant: a cancelled order gives a portion of dish 1 back to the stock
handle_update_order_status_restock(order_id, payload) ==
  /\ Idle
  /\ \E out \in {update_order_status(order_id, payload, orders)} :
         /\ orders' = out.orders
         /\ resp' = out.resp
         /\ dishes' = IF out.orders # orders /\ lower(clean_str(payload.status)) = "cancelled"
                      THEN [dishes EXCEPT ![1].portions_available = @ + 1]
                      ELSE dishes
  /\ req' = [op |-> "status", order_id |-> order_id, payload |-> payload]
  /\ before' = Read
  /\ UNCHANGED <<payments, threads, reviews>>

handle_update_order_status(order_id, payload) ==
  /\ Idle
  /\ \E out \in {update_order_status(order_id, payload, orders)} :
         /\ orders' = out.orders
         /\ resp' = out.resp
  /\ req' = [op |-> "status", order_id |-> order_id, payload |-> payload]
  /\ before' = Read
  /\ UNCHANGED <<dishes, payments, threads, reviews>>

handle_create_dish(form) ==
  /\ Idle
  /\ Len(dishes) < MaxDishes
  /\ \E out \in {create_dish(form, dishes)} :
         /\ dishes' = out.dishes
         /\ resp' = out.resp
  /\ req' = [op |-> "create_dish", form |-> form]
  /\ before' = Read
  /\ UNCHANGED <<orders, payments, threads, reviews>>

handle_create_review(payload) ==
  /\ Idle
  /\ Len(reviews) < MaxReviews
  /\ \E out \in {create_review(payload, dishes, reviews)} :
         /\ reviews' = out.reviews
         /\ resp' = out.resp
  /\ req' = [op |-> "create_review", payload |-> payload]
  /\ before' = Read
  /\ UNCHANGED <<dishes, orders, payments, threads>>

\* the response is written out and the server waits for the next request
\* GET /api/orders/<order_id>
handle_get_order(order_id) ==
  /\ Idle
  /\ req' = [op |-> "get_order", order_id |-> order_id]
  /\ resp' = LET i == find_order(orders, order_id)
             IN  IF i = 0 THEN Response(404, "order_not_found")
                 ELSE [code |-> 200, error |-> "", order |-> enrich_order(orders[i])]
  /\ before' = Read
  /\ UNCHANGED <<dishes, orders, payments, threads, reviews>>

send_json ==
  /\ ~Idle
  /\ req' = NoReq
  /\ resp' = NoResp
  /\ before' = NoBefore
  /\ UNCHANGED <<dishes, orders, payments, threads, reviews>>

(***************************************************************************)
(* Requests.                                                               *)
(***************************************************************************)
Row(dish_id, qty, price) ==
  [is_dict |-> TRUE, dish_id |-> dish_id, qty |-> qty, price |-> price]

NotDictRow == [is_dict |-> FALSE, dish_id |-> <<>>, qty |-> <<>>, price |-> <<>>]

Cart(rows) == [is_list |-> TRUE, rows |-> rows]

Visa == <<4, 2, 4, 2, 4, 2, 4, 2, 4, 2, 4, 2, 4, 2, 4, 2>>
VisaBadLuhn == <<4, 2, 4, 2, 4, 2, 4, 2, 4, 2, 4, 2, 4, 2, 4, 1>>

Card(method, card_number, exp_month, exp_year) ==
  [is_dict |-> TRUE, method |-> method, card_number |-> card_number,
   exp_month |-> exp_month, exp_year |-> exp_year, cvc |-> <<1, 2, 3>>,
   holder |-> <<" ", "A", "n", "n">>]

NotDictPayment ==
  [is_dict |-> FALSE, method |-> NoText, card_number |-> <<>>, exp_month |-> <<>>,
   exp_year |-> <<>>, cvc |-> <<>>, holder |-> <<>>]

Todays == {[year |-> 2026, month |-> 11]}

\* 09:00 is before the window of dish 2, 12:00 is inside it
Morning == 9 * 60
Noon == 12 * 60

OrderIds == {<<"ORD", n>> : n \in 1..(MaxOrders + 1)}

(***************************************************************************)
(* Spec: the whole server, one request at a time.                          *)
(***************************************************************************)
CheckoutPayloads ==
  [items : {Cart(<<Row(<<1>>, <<1>>, <<>>)>>),
            Cart(<<Row(<<1>>, <<1>>, <<>>), Row(<<2>>, <<1>>, <<>>)>>),
            Cart(<<Row(<<3>>, <<1>>, <<>>)>>)},
   delivery_mode : {"pickup", "courier"},
   customer_name : {NoText},
   payment : {Card("card", Visa, <<12>>, <<2030>>),
              Card("card", VisaBadLuhn, <<12>>, <<2030>>)}]

CreateOrderPayloads ==
  [has_dish_id : {TRUE}, dish_id : {<<1>>, <<3>>}, delivery_mode : {NoText, "courier"},
   qty : {<<>>}, customer_name : {"Ann"}]

StatusPayloads ==
  [status : ORDER_STATUS_LABELS \cup {"bogus"}, actor : {NoText}, note : {NoText}]

\* a review of dish 1, of a dish that does not exist, and one with no rating
ReviewPayloads ==
  {[dish_id |-> d, rating |-> r, text |-> <<"g", "o", "o", "d", " ">>,
    customer_name |-> NoText, order_id |-> <<>>] :
     d \in {<<1>>, <<3>>}, r \in {<<500>>}}
    \cup {[dish_id |-> <<1>>, rating |-> <<>>, text |-> <<"g", "o", "o", "d", " ">>,
            customer_name |-> NoText, order_id |-> <<>>]}

Next ==
  \/ /\ Idle
     /\ \E payload \in CheckoutPayloads, today \in Todays :
          handle_checkout(payload, Noon, today)
  \/ /\ Idle
     /\ \E payload \in CreateOrderPayloads :
          handle_create_order(payload, Noon)
  \/ /\ Idle
     /\ \E order_id \in OrderIds, payload \in StatusPayloads :
          handle_update_order_status(order_id, payload)
  \/ /\ Idle
     /\ \E payload \in ReviewPayloads :
          handle_create_review(payload)
  \/ send_json

Spec == Init /\ [][Next]_vars

(***************************************************************************)
(* SpecStatus: status updates, with every kind of status, actor and note,  *)
(* on one order that checkout or single-dish order creation has just made. *)
(***************************************************************************)
InitStatus ==
  /\ \E out \in
         {checkout(payload, Noon, today, InitDishes, <<>>, <<>>) :
            payload \in CheckoutPayloads, today \in Todays}
           \cup {create_order(payload, Noon, InitDishes, <<>>) @@ [payments |-> <<>>] :
                   payload \in CreateOrderPayloads} :
       /\ out.resp.code = 201
       /\ dishes = out.dishes
       /\ orders = out.orders
       /\ payments = out.payments
  /\ req = NoReq
  /\ resp = NoResp
  /\ before = NoBefore
  /\ threads = NoThreads
  /\ reviews = <<>>

ActorNotes == {<<NoText, NoText>>, <<"admin", " late ">>, <<"  ", "  ">>}

AnyStatusPayloads ==
  {[status |-> status, actor |-> an[1], note |-> an[2]] :
     status \in ORDER_STATUS_LABELS \cup {"READY ", "COMPLETED", "bogus", NoText},
     an \in ActorNotes}

NextStatus ==
  \/ /\ Idle
     /\ \E order_id \in OrderIds, payload \in AnyStatusPayloads :
          handle_update_order_status(order_id, payload)
  \/ send_json

SpecStatus == InitStatus /\ [][NextStatus]_vars

(***************************************************************************)
(* SpecStored: status updates and reads of an order that was stored by an  *)
(* older version of the server or by hand: its status may be unknown or    *)
(* written in capitals, its history and its created_at may be missing.     *)
(***************************************************************************)
\* an order as checkout stores it
PaidOrder ==
  checkout([items |-> Cart(<<Row(<<1>>, <<1>>, <<>>)>>), delivery_mode |-> "pickup",
            customer_name |-> NoText, payment |-> Card("card", Visa, <<12>>, <<2030>>)],
           Noon, [year |-> 2026, month |-> 11], InitDishes, <<>>, <<>>).orders[1]

StoredStatuses == ORDER_STATUS_LABELS \cup {"bogus", "READY ", NoText}

StoredHistories ==
  {<<>>, <<[status |-> "bogus", at |-> "", by |-> "", note |-> NoText]>>}

StoredOrders ==
  {[PaidOrder EXCEPT !.status = status, !.status_history = history,
                     !.delivery_mode = delivery_mode, !.created_at = created_at] :
     status \in StoredStatuses, history \in StoredHistories,
     delivery_mode \in {"pickup", "courier"}, created_at \in {"2025-12-31", NoText}}

InitStored ==
  /\ dishes = InitDishes
  /\ \E order \in StoredOrders : orders = <<order>>
  /\ payments = <<>>
  /\ req = NoReq
  /\ resp = NoResp
  /\ before = NoBefore
  /\ threads = NoThreads
  /\ reviews = <<>>

NextStored ==
  \/ /\ Idle
     /\ \E order_id \in OrderIds, payload \in StatusPayloads :
          handle_update_order_status(order_id, payload)
  \/ /\ Idle
     /\ \E order_id \in OrderIds : handle_get_order(order_id)
  \/ send_json

SpecStored == InitStored /\ [][NextStored]_vars

(***************************************************************************)
(* SpecCheckout: checkouts with every kind of cart, delivery mode and      *)
(* payment instrument.                                                     *)
(***************************************************************************)
\* rows: not an object, no qty, one or two of dish 1 (once with a price of the
\* client's), one of dish 2, one of a dish that does not exist
CartRows ==
  {NotDictRow, Row(<<1>>, <<>>, <<>>), Row(<<1>>, <<1>>, <<>>), Row(<<1>>, <<1>>, <<1>>),
   Row(<<1>>, <<2>>, <<>>), Row(<<2>>, <<1>>, <<>>), Row(<<3>>, <<1>>, <<>>)}

Carts ==
  {Cart(rows) : rows \in SeqsUpTo(CartRows, MaxCartLen)}
    \cup {[is_list |-> FALSE, rows |-> <<>>]}

AnyCheckoutPayloads ==
  [items : Carts,
   delivery_mode : {NoText, "courier", "drone"},
   customer_name : {NoText},
   payment : {NotDictPayment,
              Card("card", Visa, <<11>>, <<2026>>),
              Card("card", VisaBadLuhn, <<12>>, <<2030>>)}]

NextCheckout ==
  \/ /\ Idle
     /\ \E payload \in AnyCheckoutPayloads, now_minutes \in {Morning, Noon}, today \in Todays :
          handle_checkout(payload, now_minutes, today)
  \/ send_json

SpecCheckout == Init /\ [][NextCheckout]_vars

(***************************************************************************)
(* SpecThreads: two threads of ThreadingHTTPServer handle checkouts at the *)
(* same time.  No lock is taken: a thread takes one step per access to a   *)
(* collection file and keeps what it read in its local variables.          *)
(***************************************************************************)
\* the payment record and the order that a thread builds from its locals
ThreadPayment(t) ==
  Last(create_payment_record(next_order_id(threads[t].orders), threads[t].payment_data,
                             threads[t].payments))

ThreadOrder(t) ==
  checkout_order(threads[t].payload, threads[t].checkout_rows, threads[t].raw_dishes,
                 threads[t].orders, ThreadPayment(t))

\* read_dishes(), then the cart, the delivery mode and the payment are
\* validated on what was read; an error ends the request
checkout_read_dishes(t, payload, now_minutes, today) ==
  /\ threads[t].pc = "idle"
  /\ Len(orders) < MaxOrders
  /\ LET validated == validate_checkout_items(payload.items, dishes, now_minutes)
         total == checkout_total(validated.rows, dishes)
         out == checkout(payload, now_minutes, today, dishes, <<>>, <<>>)
         started == [IdleThread EXCEPT !.payload = payload, !.now_minutes = now_minutes,
                                       !.today = today, !.raw_dishes = dishes]
     IN  threads' =
           [threads EXCEPT ![t] =
              IF out.resp.code # 201
              THEN [started EXCEPT !.pc = "done", !.resp = out.resp]
              ELSE [started EXCEPT
                      !.pc = "write_dishes",
                      !.checkout_rows = validated.rows,
                      !.payment_data = validate_payment_payload(payload, total, today).data]]
  /\ UNCHANGED <<dishes, orders, payments, req, resp, before, reviews>>

\* mutant: the stock is checked again on the collection as it is when it is written
checkout_write_dishes_recheck(t) ==
  /\ threads[t].pc = "write_dishes"
  /\ IF \E i \in DOMAIN threads[t].checkout_rows :
          threads[t].checkout_rows[i].qty >
            dish_portions_available(dishes[threads[t].checkout_rows[i].dish])
     THEN /\ threads' = [threads EXCEPT ![t].pc = "done",
                                        ![t].resp = Response(400, "dish_stock_not_enough")]
          /\ UNCHANGED dishes
     ELSE /\ dishes' = decrement_stock(dishes, threads[t].checkout_rows)
          /\ threads' = [threads EXCEPT ![t].pc = "read_orders"]
  /\ UNCHANGED <<orders, payments, req, resp, before, reviews>>

\* the stock of the rows is taken from the dishes the thread read, and
\* write_dishes(raw_dishes) overwrites the collection with them
checkout_write_dishes(t) ==
  /\ threads[t].pc = "write_dishes"
  /\ dishes' = decrement_stock(threads[t].raw_dishes, threads[t].checkout_rows)
  /\ threads' = [threads EXCEPT ![t].pc = "read_orders"]
  /\ UNCHANGED <<orders, payments, req, resp, before, reviews>>

\* orders = read_orders()
checkout_read_orders(t) ==
  /\ threads[t].pc = "read_orders"
  /\ threads' = [threads EXCEPT ![t].pc = "read_payments", ![t].orders = orders]
  /\ UNCHANGED <<dishes, orders, payments, req, resp, before, reviews>>

\* payments = read_payments() in create_payment_record
checkout_read_payments(t) ==
  /\ threads[t].pc = "read_payments"
  /\ threads' = [threads EXCEPT ![t].pc = "write_payments", ![t].payments = payments]
  /\ UNCHANGED <<dishes, orders, payments, req, resp, before, reviews>>

\* write_payments(payments) in create_payment_record
checkout_write_payments(t) ==
  /\ threads[t].pc = "write_payments"
  /\ payments' = create_payment_record(next_order_id(threads[t].orders),
                                       threads[t].payment_data, threads[t].payments)
  /\ threads' = [threads EXCEPT ![t].pc = "write_orders"]
  /\ UNCHANGED <<dishes, orders, req, resp, before, reviews>>

\* mutant: the order is appended to the collection as it is when it is written
checkout_write_orders_append(t) ==
  /\ threads[t].pc = "write_orders"
  /\ orders' = Append(orders, ThreadOrder(t))
  /\ threads' = [threads EXCEPT ![t].pc = "done", ![t].resp = Response(201, "")]
  /\ UNCHANGED <<dishes, payments, req, resp, before, reviews>>

\* orders.append(order); write_orders(orders)
checkout_write_orders(t) ==
  /\ threads[t].pc = "write_orders"
  /\ orders' = Append(threads[t].orders, ThreadOrder(t))
  /\ threads' = [threads EXCEPT ![t].pc = "done", ![t].resp = Response(201, "")]
  /\ UNCHANGED <<dishes, payments, req, resp, before, reviews>>

\* the response is written out and the thread ends
thread_send_json(t) ==
  /\ threads[t].pc = "done"
  /\ threads' = [threads EXCEPT ![t] = IdleThread]
  /\ UNCHANGED <<dishes, orders, payments, req, resp, before, reviews>>

ThreadPayloads ==
  [items : {Cart(<<Row(<<1>>, <<1>>, <<>>)>>),
            Cart(<<Row(<<1>>, <<2>>, <<>>)>>),
            Cart(<<Row(<<2>>, <<1>>, <<>>)>>)},
   delivery_mode : {"pickup"},
   customer_name : {NoText},
   payment : {Card("card", Visa, <<12>>, <<2030>>),
              Card("card", VisaBadLuhn, <<12>>, <<2030>>)}]

NextThreads ==
  \/ \E t \in Threads :
       /\ threads[t].pc = "idle"
       /\ \E payload \in ThreadPayloads, today \in Todays :
            checkout_read_dishes(t, payload, Noon, today)
  \/ \E t \in Threads : checkout_write_dishes(t)
  \/ \E t \in Threads : checkout_read_orders(t)
  \/ \E t \in Threads : checkout_read_payments(t)
  \/ \E t \in Threads : checkout_write_payments(t)
  \/ \E t \in Threads : checkout_write_orders(t)
  \/ \E t \in Threads : thread_send_json(t)

SpecThreads == Init /\ [][NextThreads]_vars

(***************************************************************************)
(* SpecPayment: checkouts of one portion of dish 1 with payment            *)
(* instruments of every kind, in November and in January 2026.            *)
(***************************************************************************)
\* a blank between the digits of a card number
Blank == 11

\* 4242 4242 4242 4242 with blanks; a number with the first four and the last
\* four digits of Visa and other digits between them; numbers of 12 digits
Visa4Spaced ==
  <<4, 2, 4, 2, Blank, 4, 2, 4, 2, Blank, 4, 2, 4, 2, Blank, 4, 2, 4, 2>>
VisaOtherMiddle == <<4, 2, 4, 2, 0, 0, 0, 0, 0, 0, 5, 9, 4, 2, 4, 2>>
TooShort == <<4, 2, 4, 2, 4, 2, 4, 2, 4, 2, 4, 2>>

Instruments ==
  [is_dict : {TRUE},
   method : {"card", "CARD", "cash"},
   card_number : {Visa, VisaOtherMiddle, VisaBadLuhn, Visa4Spaced, TooShort},
   exp_month : {<<>>, <<1>>, <<10>>, <<11>>, <<12>>, <<13>>},
   exp_year : {<<1999>>, <<2025>>, <<2026>>, <<2027>>, <<2101>>},
   cvc : {<<1, 2, 3>>, <<9, 8, 7, 6>>, <<1, 2>>, <<1, Letter, 2, 3>>},
   holder : {<<" ", "A", "n", "n">>, <<"A", " ">>}]
    \cup {NotDictPayment}

PaymentPayloads ==
  [items : {Cart(<<Row(<<1>>, <<1>>, <<>>)>>)},
   delivery_mode : {"pickup"},
   customer_name : {NoText},
   payment : Instruments]

\* the month of the local clock: November 2026 and January 2026
PaymentDays == Todays \cup {[year |-> 2026, month |-> 1]}

NextPayment ==
  \/ /\ Idle
     /\ \E payload \in PaymentPayloads, today \in PaymentDays :
          handle_checkout(payload, Noon, today)
  \/ send_json

SpecPayment == Init /\ [][NextPayment]_vars

(***************************************************************************)
(* SpecDishes: dish creation with forms of every kind, the bounds of the   *)
(* window above all.                                                       *)
(***************************************************************************)
\* bounds of a form: none, 10:00, 10:30, 20:00, and texts that are no HH:MM:
\* 25:00, 10:60, "10", a part that is not a number
FormBounds ==
  {<<>>, <<10, 0>>, <<10, 30>>, <<20, 0>>, <<25, 0>>, <<10, 60>>, <<10>>, <<-1, 0>>}

DishForm(title, cook_id, price, portions_available, delivery, image_error) ==
  [is_multipart |-> TRUE, title |-> title, cook_id |-> cook_id, price |-> price,
   portion_grams |-> <<300>>, wait_minutes |-> <<>>,
   portions_available |-> portions_available, available_from |-> <<>>,
   available_until |-> <<>>, delivery |-> delivery, image_error |-> image_error]

\* a form that passes but for its window, with every pair of bounds, and
\* forms with one other field that fails
DishForms ==
  {[DishForm("Soup", <<1>>, <<250>>, <<3>>, <<>>, "") EXCEPT
      !.available_from = from, !.available_until = until] :
     from \in FormBounds, until \in FormBounds}
    \cup {DishForm(NoText, <<1>>, <<250>>, <<3>>, <<>>, ""),
          DishForm("Soup", <<2>>, <<250>>, <<3>>, <<>>, ""),
          DishForm("Soup", <<3>>, <<250>>, <<3>>, <<>>, ""),
          DishForm("Soup", <<1>>, <<>>, <<3>>, <<>>, ""),
          DishForm("Soup", <<1>>, <<250>>, <<0>>, <<>>, ""),
          DishForm("Soup", <<1>>, <<250>>, <<3>>, <<"cook", "pickup">>, ""),
          DishForm("Soup", <<1>>, <<250>>, <<3>>, <<"drone">>, ""),
          DishForm("Soup", <<1>>, <<250>>, <<3>>, <<>>, "image_required"),
          [DishForm("Soup", <<1>>, <<250>>, <<3>>, <<>>, "") EXCEPT !.is_multipart = FALSE]}

NextDishes ==
  \/ /\ Idle
     /\ \E form \in DishForms : handle_create_dish(form)
  \/ send_json

SpecDishes == Init /\ [][NextDishes]_vars

(***************************************************************************)
(* SpecDishIds: dish creation on a dish collection that is empty, that is  *)
(* the one of Init, or whose ids are neither consecutive nor in order.     *)
(***************************************************************************)
StartCatalogs ==
  {<<>>, InitDishes, <<[InitDishes[2] EXCEPT !.id = 5], [InitDishes[1] EXCEPT !.id = 2]>>}

InitDishIds ==
  /\ dishes \in StartCatalogs
  /\ orders = <<>>
  /\ payments = <<>>
  /\ req = NoReq
  /\ resp = NoResp
  /\ before = NoBefore
  /\ threads = NoThreads
  /\ reviews = <<>>

\* forms that pass, of cook 1 and of cook 2, and forms that fail
IdForms ==
  {DishForm("Soup", <<1>>, <<250>>, <<3>>, <<>>, ""),
   DishForm("Soup", <<2>>, <<250>>, <<3>>, <<>>, ""),
   DishForm("Soup", <<1>>, <<250>>, <<1>>, <<"cook", "pickup">>, ""),
   DishForm("Soup", <<3>>, <<250>>, <<3>>, <<>>, ""),
   DishForm("Soup", <<1>>, <<>>, <<3>>, <<>>, "")}

NextDishIds ==
  \/ /\ Idle
     /\ \E form \in IdForms : handle_create_dish(form)
  \/ send_json

SpecDishIds == InitDishIds /\ [][NextDishIds]_vars

(***************************************************************************)
(* Review statistics.  A rating is a number of hundredths (400 is 4.0); a  *)
(* dict keyed by ids is a function on the ids that it holds.               *)
(***************************************************************************)
\* round(sum / count + 1e-8, 2): the nearest hundredth, a half rounded up
round_rating(sum, count) == (2 * sum + count) \div (2 * count)

\* dish_to_cook of build_review_stats: a later dish of the same id wins
dish_to_cook(dishes_read) ==
  LET mapped == {k \in DOMAIN dishes_read :
                   dishes_read[k].id > 0 /\ dishes_read[k].cook_id > 0}
  IN  [id \in {dishes_read[k].id : k \in mapped} |->
         dishes_read[CHOOSE k \in mapped :
                       /\ dishes_read[k].id = id
                       /\ \A j \in mapped : dishes_read[j].id = id => j <= k].cook_id]

\* stats[key]["sum"] += rating; stats[key]["count"] += 1
add_rating(stats, key, rating) ==
  IF key \in DOMAIN stats
  THEN [stats EXCEPT ![key] = [sum |-> @.sum + rating, count |-> @.count + 1]]
  ELSE [id \in DOMAIN stats \cup {key} |->
          IF id = key THEN [sum |-> rating, count |-> 1] ELSE stats[id]]

\* mutant: the review counts for the cook that the review itself names
add_review_carried_cook(stats, review, mapping) ==
  IF review.dish_id <= 0 \/ review.rating <= 0 THEN stats
  ELSE [dish_stats |-> add_rating(stats.dish_stats, review.dish_id, review.rating),
        cook_stats |-> IF review.cook_id > 0
                       THEN add_rating(stats.cook_stats, review.cook_id, review.rating)
                       ELSE stats.cook_stats]

\* one turn of the loop over the reviews in build_review_stats
add_review(stats, review, mapping) ==
  IF review.dish_id <= 0 \/ review.rating <= 0 THEN stats
  ELSE [dish_stats |-> add_rating(stats.dish_stats, review.dish_id, review.rating),
        cook_stats |-> IF review.dish_id \in DOMAIN mapping
                       THEN add_rating(stats.cook_stats, mapping[review.dish_id],
                                       review.rating)
                       ELSE stats.cook_stats]

RECURSIVE review_stats(_, _)
review_stats(reviews_read, mapping) ==
  IF reviews_read = <<>> THEN [dish_stats |-> <<>>, cook_stats |-> <<>>]
  ELSE add_review(review_stats(SubSeq(reviews_read, 1, Len(reviews_read) - 1), mapping),
                  Last(reviews_read), mapping)

build_review_stats(dishes_read, reviews_read) ==
  review_stats(reviews_read, dish_to_cook(dishes_read))

\* the rating and reviews_count that both enrichments give to an item
rated(item, stats) ==
  IF item.id \in DOMAIN stats /\ stats[item.id].count > 0
  THEN [rating |-> round_rating(stats[item.id].sum, stats[item.id].count),
        reviews_count |-> stats[item.id].count]
  ELSE [rating |-> item.rating, reviews_count |-> 0]

\* the enriched dishes, without the label of the availability
enrich_dishes_with_reviews_and_availability(dishes_read, reviews_read, now_minutes) ==
  LET dish_stats == build_review_stats(dishes_read, reviews_read).dish_stats
  IN  [k \in DOMAIN dishes_read |->
         LET item == dishes_read[k]
         IN  [id |-> item.id,
              cook_id |-> item.cook_id,
              rating |-> rated(item, dish_stats).rating,
              reviews_count |-> rated(item, dish_stats).reviews_count,
              is_available |-> dish_availability(item, now_minutes),
              portions_available |-> dish_portions_available(item),
              available_from |-> item.available_from,
              available_until |-> item.available_until]]

enrich_cooks_with_reviews(cooks, dishes_read, reviews_read) ==
  LET cook_stats == build_review_stats(dishes_read, reviews_read).cook_stats
  IN  [k \in DOMAIN cooks |->
         [id |-> cooks[k].id,
          rating |-> rated(cooks[k], cook_stats).rating,
          reviews_count |-> rated(cooks[k], cook_stats).reviews_count]]

(***************************************************************************)
(* SpecFunctions: the functions that the read endpoints and the handlers   *)
(* apply, each on inputs of every kind; req is the input and resp is what  *)
(* the function returns.                                                   *)
(***************************************************************************)
\* dish_availability(dish) at the time now_minutes of the local clock
eval_dish_availability(dish, now_minutes) ==
  /\ Idle
  /\ req' = [op |-> "dish_availability", dish |-> dish, now_minutes |-> now_minutes]
  /\ resp' = [is_available |-> dish_availability(dish, now_minutes),
              in_time_window |-> dish_is_time_available(dish, now_minutes),
              portions_available |-> dish_portions_available(dish)]
  /\ UNCHANGED <<dishes, orders, payments, before, threads, reviews>>

\* valid_card_luhn(value)
eval_valid_card_luhn(value) ==
  /\ Idle
  /\ req' = [op |-> "valid_card_luhn", value |-> value]
  /\ resp' = [valid |-> valid_card_luhn(value)]
  /\ UNCHANGED <<dishes, orders, payments, before, threads, reviews>>

\* the dishes and the cooks as the read endpoints enrich them
eval_review_stats(cooks, dishes_read, reviews_read, now_minutes) ==
  /\ Idle
  /\ req' = [op |-> "review_stats", cooks |-> cooks, dishes |-> dishes_read,
             reviews |-> reviews_read, now_minutes |-> now_minutes]
  /\ resp' = [dishes |-> enrich_dishes_with_reviews_and_availability(
                           dishes_read, reviews_read, now_minutes),
              cooks |-> enrich_cooks_with_reviews(cooks, dishes_read, reviews_read)]
  /\ UNCHANGED <<dishes, orders, payments, before, threads, reviews>>

\* two cooks with a stored rating
RatedCooks == <<[id |-> 1, rating |-> 480], [id |-> 2, rating |-> 350]>>

\* the dishes of a catalog: two dishes of cook 1 and one of cook 2, each with
\* a stored rating; in the second catalog dish 2 names no cook
RatedDish(id, cook_id, rating) ==
  [id |-> id, cook_id |-> cook_id, rating |-> rating, portions_available |-> 1,
   available_from |-> <<>>, available_until |-> <<>>]

Catalogs ==
  {<<RatedDish(1, 1, 470), RatedDish(2, 1, 0), RatedDish(3, 2, 310)>>,
   <<RatedDish(1, 1, 470), RatedDish(2, 0, 420), RatedDish(3, 2, 310)>>}

\* reviews of dish 1, of dish 2 and of no dish, rated 0, 3.0, 4.0 or 5.0; a
\* review of dish 1 names cook 2, the others name cook 1, and one review of
\* dish 1 names its own cook
StoredReviews ==
  {[dish_id |-> dish_id, cook_id |-> IF dish_id = 1 THEN 2 ELSE 1, rating |-> rating] :
     dish_id \in {0, 1, 2}, rating \in {0, 300, 400, 500}}
    \cup {[dish_id |-> 1, cook_id |-> 1, rating |-> 500]}

Amex == <<3, 7, 8, 2, 8, 2, 2, 4, 6, 3, 1, 0, 0, 0, 5>>

\* every text of up to 3 digits, texts with a letter, and card numbers of 16
\* and of 15 digits, good and with the last digit changed
CardTexts ==
  SeqsUpTo(0..9, 3)
    \cup {<<Letter>>, <<1, 8, Letter>>, <<Letter, 1, 8>>, Visa, VisaBadLuhn, Amex,
          [Amex EXCEPT ![15] = 6]}

\* the bounds of a window: none, midnight, 10:00, 10:30, 20:00, 23:59
WindowBounds == {<<>>, <<0, 0>>, <<10, 0>>, <<10, 30>>, <<20, 0>>, <<23, 59>>}

\* times of the day, in minutes, at and next to the bounds
Clock == {0, 1, 599, 600, 601, 630, 631, 1199, 1200, 1201, 1439}

StoredDishes ==
  {[InitDishes[1] EXCEPT !.portions_available = portions, !.available_from = from,
                         !.available_until = until] :
     portions \in 0..2, from \in WindowBounds, until \in WindowBounds}

NextFunctions ==
  \/ /\ Idle
     /\ \E dish \in StoredDishes, now_minutes \in Clock :
          eval_dish_availability(dish, now_minutes)
  \/ /\ Idle
     /\ \E value \in CardTexts : eval_valid_card_luhn(value)
  \/ /\ Idle
     /\ \E dishes_read \in Catalogs, reviews_read \in SeqsUpTo(StoredReviews, MaxReviewList) :
          eval_review_stats(RatedCooks, dishes_read, reviews_read, Noon)
  \/ send_json

SpecFunctions == Init /\ [][NextFunctions]_vars

(***************************************************************************)
(* Properties of the order status machine.                                 *)
(***************************************************************************)
KnownStatuses ==
  {"new", "paid", "accepted", "cooking", "ready", "delivering", "completed", "cancelled"}

TerminalStatuses == {"completed", "cancelled"}

\* the status a status request asks for, as the handler reads it
Requested == lower(clean_str(req.payload.status))

\* the orders of the collection read whose id the status request names
Targets == {i \in DOMAIN before.orders : before.orders[i].id = req.order_id}

TransitionTable ==
  {<<"new", "accepted">>, <<"new", "cancelled">>,
   <<"paid", "accepted">>, <<"paid", "cancelled">>,
   <<"accepted", "cooking">>, <<"accepted", "cancelled">>,
   <<"cooking", "ready">>, <<"cooking", "cancelled">>,
   <<"ready", "delivering">>, <<"ready", "completed">>, <<"ready", "cancelled">>,
   <<"delivering", "completed">>, <<"delivering", "cancelled">>}

InTable(order, requested) ==
  /\ <<order.status, requested>> \in TransitionTable
  /\ ~(order.status = "ready" /\ requested = "delivering" /\ order.delivery_mode = "pickup")

TransitionInvalid(current, requested) ==
  [code |-> 400, error |-> "status_transition_invalid",
   current_status |-> current, requested_status |-> requested]

\* C1: a request for a known status other than the current one is accepted
\* iff (current, requested) is in the transition table, ready -> delivering
\* being out of it for a pickup order; any other such request fails with
\* status_transition_invalid and reports the current and the requested status.
C1_TransitionTable ==
  req.op = "status" =>
    \A i \in Targets :
      (Requested \in KnownStatuses /\ Requested # before.orders[i].status) =>
        IF InTable(before.orders[i], Requested)
        THEN resp.code = 200 /\ orders[i].status = Requested
        ELSE resp = TransitionInvalid(before.orders[i].status, Requested)
             /\ orders = before.orders

\* a pickup order that is ready was asked to go to delivering, and refused
C1_Witness ==
  /\ req.op = "status"
  /\ \E i \in Targets :
       /\ before.orders[i].status = "ready"
       /\ before.orders[i].delivery_mode = "pickup"
  /\ Requested = "delivering"
  /\ resp.error = "status_transition_invalid"

\* C2: once the status of an order is completed or cancelled, no step of the
\* server changes it.
C2_TerminalForever ==
  [][\A i \in DOMAIN orders :
       orders[i].status \in TerminalStatuses =>
         i \in DOMAIN orders' /\ orders'[i].status = orders[i].status]_vars

\* a completed or cancelled order was asked to take another status, and kept its own
C2_Witness ==
  /\ req.op = "status"
  /\ Requested \in KnownStatuses
  /\ \E i \in Targets :
       /\ before.orders[i].status \in TerminalStatuses
       /\ Requested # before.orders[i].status
       /\ orders[i].status = before.orders[i].status

\* C3: a request for the status the order already has succeeds and changes
\* nothing of the order (status, history, completed_at, cancelled_at), in
\* terminal statuses too; and handling any status request a second time
\* leaves the orders as the first handling left them.
C3_SelfTransitionNoOp ==
  req.op = "status" =>
    /\ \A i \in Targets :
         Requested = before.orders[i].status => resp.code = 200 /\ orders = before.orders
    /\ update_order_status(req.order_id, req.payload, orders).orders = orders

\* a completed order was asked to be completed again
C3_Witness ==
  /\ req.op = "status"
  /\ Requested = "completed"
  /\ \E i \in Targets : before.orders[i].status = "completed"
  /\ resp.code = 200

\* the actor and the note a status request supplies, trimmed
SuppliedActor == IF req.payload.actor = "admin" THEN "admin" ELSE ""
SuppliedNote == IF req.payload.note = " late " THEN "late" ELSE ""

\* C4: an accepted request for a different status sets the status, appends
\* exactly one event with that status, the supplied actor ("cook" when none
\* is supplied) and the supplied note, and stamps completed_at on completed
\* and cancelled_at on cancelled.
C4_ApplyTransition ==
  (req.op = "status" /\ resp.code = 200) =>
    \A i \in Targets :
      Requested # before.orders[i].status =>
        LET old == before.orders[i].status_history
            new == orders[i].status_history
        IN  /\ orders[i].status = Requested
            /\ Len(new) = Len(old) + 1
            /\ SubSeq(new, 1, Len(old)) = old
            /\ Last(new).status = Requested
            /\ Last(new).by = (IF SuppliedActor = "" THEN "cook" ELSE SuppliedActor)
            /\ Last(new).note = SuppliedNote
            /\ (Requested = "completed" => orders[i].completed_at # "")
            /\ (Requested = "cancelled" => orders[i].cancelled_at # "")

\* a ready order was completed by the actor "admin"
C4_Witness ==
  /\ req.op = "status"
  /\ resp.code = 200
  /\ req.payload.actor = "admin"
  /\ \E i \in Targets :
       /\ before.orders[i].status = "ready"
       /\ orders[i].status = "completed"
       /\ orders[i].completed_at # ""
       /\ Last(orders[i].status_history).by = "admin"

ReqRows == req.payload.items.rows

\* a row with a dish id and a quantity of at least 1
WellFormed(row) ==
  /\ row.is_dict
  /\ Len(row.dish_id) = 1 /\ row.dish_id[1] > 0
  /\ Len(row.qty) = 1 /\ row.qty[1] > 0

InWindow(dish, now_minutes) ==
  /\ dish.available_from # <<>> =>
       now_minutes >= dish.available_from[1] * 60 + dish.available_from[2]
  /\ dish.available_until # <<>> =>
       now_minutes <= dish.available_until[1] * 60 + dish.available_until[2]

\* the row's dish is missing, or is unavailable, or has fewer portions than
\* the row asks for, in the collection the handler read
RowFails(row) ==
  /\ WellFormed(row)
  /\ \/ \A k \in DOMAIN before.dishes : before.dishes[k].id # row.dish_id[1]
     \/ \E k \in DOMAIN before.dishes :
          /\ before.dishes[k].id = row.dish_id[1]
          /\ \/ before.dishes[k].portions_available <= 0
             \/ ~InWindow(before.dishes[k], req.now_minutes)
             \/ row.qty[1] > before.dishes[k].portions_available

RowPasses(row) ==
  /\ WellFormed(row)
  /\ \E k \in DOMAIN before.dishes :
       /\ before.dishes[k].id = row.dish_id[1]
       /\ before.dishes[k].portions_available >= row.qty[1]
       /\ InWindow(before.dishes[k], req.now_minutes)

CartErrors ==
  {"items_required", "items_invalid", "dish_not_found", "dish_unavailable",
   "dish_stock_not_enough"}

\* C6: when any row of the cart fails (dish missing, dish unavailable, more
\* than the portions available), the checkout fails with a cart error and the
\* stock of every dish is what it was, the dishes of the valid rows included.
C6_CartAllOrNothing ==
  (req.op = "checkout" /\ \E j \in DOMAIN ReqRows : RowFails(ReqRows[j])) =>
    /\ resp.code # 201
    /\ resp.error \in CartErrors
    /\ dishes = before.dishes
    /\ orders = before.orders
    /\ payments = before.payments

\* a cart with a valid row and a row asking for more than is left was refused
C6_Witness ==
  /\ req.op = "checkout"
  /\ Len(ReqRows) = 2
  /\ RowPasses(ReqRows[1])
  /\ RowFails(ReqRows[2])
  /\ resp.error = "dish_stock_not_enough"
  /\ dishes = before.dishes

\* C7: a checkout that ends in an error of any kind leaves dishes, orders and
\* payments as they were.
C7_FailedCheckoutNoChange ==
  (req.op = "checkout" /\ resp.code # 201) =>
    /\ dishes = before.dishes
    /\ orders = before.orders
    /\ payments = before.payments

\* a cart of valid rows was refused for its card number
C7_Witness ==
  /\ req.op = "checkout"
  /\ \A j \in DOMAIN ReqRows : RowPasses(ReqRows[j])
  /\ ReqRows # <<>>
  /\ resp.error = "card_number_invalid"
  /\ dishes = before.dishes

\* the quantity the cart orders of the dish with this id
Ordered(dish_id) ==
  SumSeq([j \in DOMAIN ReqRows |->
            IF ReqRows[j].dish_id = <<dish_id>> THEN ReqRows[j].qty[1] ELSE 0])

\* C8: a successful checkout lowers the portions of each ordered dish by the
\* quantity ordered, not below 0, and changes no other dish and nothing else
\* of a dish; one unit of a dish priced 500 with 2 portions left gives a total
\* of 500, 1 portion left and a captured payment.
C8_StockDecrement ==
  (req.op = "checkout" /\ resp.code = 201) =>
    /\ DOMAIN dishes = DOMAIN before.dishes
    /\ \A k \in DOMAIN dishes :
         dishes[k] =
           [before.dishes[k] EXCEPT
              !.portions_available = Max(0, @ - Ordered(before.dishes[k].id))]
    /\ \A k \in DOMAIN dishes :
         (/\ Len(ReqRows) = 1
          /\ ReqRows[1].dish_id = <<before.dishes[k].id>>
          /\ ReqRows[1].qty = <<1>>
          /\ before.dishes[k].price = 500
          /\ before.dishes[k].portions_available = 2) =>
           /\ Last(orders).total_price = 500
           /\ dishes[k].portions_available = 1
           /\ Last(payments).status = "captured"

\* one unit of the dish priced 500 was bought when it had 2 portions
C8_Witness ==
  /\ req.op = "checkout"
  /\ resp.code = 201
  /\ Len(ReqRows) = 1
  /\ ReqRows[1].qty = <<1>>
  /\ \E k \in DOMAIN dishes :
       /\ ReqRows[1].dish_id = <<before.dishes[k].id>>
       /\ before.dishes[k].price = 500
       /\ before.dishes[k].portions_available = 2
       /\ dishes[k].portions_available = 1

\* C9: the order a checkout creates has status paid and a history of exactly
\* one event, with status paid and by "payment"; the payment created with it
\* has status captured.
C9_InitialOrder ==
  (req.op = "checkout" /\ resp.code = 201) =>
    /\ Len(orders) = Len(before.orders) + 1
    /\ SubSeq(orders, 1, Len(before.orders)) = before.orders
    /\ Last(orders).status = "paid"
    /\ Len(Last(orders).status_history) = 1
    /\ Last(orders).status_history[1].status = "paid"
    /\ Last(orders).status_history[1].by = "payment"
    /\ Len(payments) = Len(before.payments) + 1
    /\ Last(payments).status = "captured"
    /\ Last(payments).order_id = Last(orders).id

\* a second order was created by checkout
C9_Witness ==
  /\ req.op = "checkout"
  /\ resp.code = 201
  /\ Len(orders) = 2
  /\ Len(payments) = 2
  /\ Last(orders).status = "paid"

\* the price stored for the dish with this id
StoredPrice(dish_id) ==
  LET k == CHOOSE k \in DOMAIN before.dishes : before.dishes[k].id = dish_id
  IN  before.dishes[k].price

\* the sum over the rows of the cart of quantity times stored price
ServerTotal ==
  SumSeq([j \in DOMAIN ReqRows |-> ReqRows[j].qty[1] * StoredPrice(ReqRows[j].dish_id[1])])

\* C10: the total of a successful checkout is the sum over the cart rows of
\* quantity times the price stored for the dish, whatever price the rows of
\* the client carry, and it is both order.total_price and payment.amount.
C10_ServerTotal ==
  (req.op = "checkout" /\ resp.code = 201) =>
    /\ Last(orders).total_price = ServerTotal
    /\ Last(payments).amount = ServerTotal
    /\ \A j \in DOMAIN ReqRows :
         /\ Last(orders).items[j].unit_price = StoredPrice(ReqRows[j].dish_id[1])
         /\ Last(orders).items[j].subtotal =
              ReqRows[j].qty[1] * StoredPrice(ReqRows[j].dish_id[1])

\* a cart whose row carries a price of 1 for the dish priced 500 was charged 500
C10_Witness ==
  /\ req.op = "checkout"
  /\ resp.code = 201
  /\ ReqRows = <<Row(<<1>>, <<1>>, <<1>>)>>
  /\ Last(orders).total_price = 500
  /\ Last(payments).amount = 500

(***************************************************************************)
(* Properties of the delivery mode and the cart errors of checkout.        *)
(***************************************************************************)
DeliveryModes == {"pickup", "cook", "courier"}

\* the delivery mode a checkout request asks for, pickup when it names none
RequestedMode ==
  IF req.payload.delivery_mode \in {NoText, ""} THEN "pickup" ELSE req.payload.delivery_mode

\* the cart is a list of at least one row and every row passes
CartPasses ==
  /\ req.payload.items.is_list
  /\ ReqRows # <<>>
  /\ \A j \in DOMAIN ReqRows : RowPasses(ReqRows[j])

\* the delivery modes of the dish a row of the cart orders
RowDelivery(row) ==
  LET k == CHOOSE k \in DOMAIN before.dishes : before.dishes[k].id = row.dish_id[1]
  IN  Range(before.dishes[k].delivery)

OfferedByAll == \A j \in DOMAIN ReqRows : RequestedMode \in RowDelivery(ReqRows[j])

\* C11 as stated: a checkout whose cart passes fails with
\* delivery_mode_not_available whenever the mode is not one of pickup, cook,
\* courier or is not offered by the dish of every row, and gets past the
\* delivery mode only otherwise.
C11_ModeNotAvailable ==
  (req.op = "checkout" /\ CartPasses) =>
    IF RequestedMode \notin DeliveryModes \/ ~OfferedByAll
    THEN resp.code # 201 /\ resp.error = "delivery_mode_not_available"
    ELSE resp.error \notin {"delivery_mode_not_available", "delivery_mode_invalid"}

\* C11: a checkout whose cart passes fails with delivery_mode_invalid when
\* the mode is not one of pickup, cook, courier, and with
\* delivery_mode_not_available when the mode is one of the three and the dish
\* of some row does not offer it; it gets past the delivery mode only when
\* the mode is one of the three and every ordered dish offers it.
C11_DeliveryMode ==
  (req.op = "checkout" /\ CartPasses) =>
    IF RequestedMode \notin DeliveryModes
    THEN resp = Response(400, "delivery_mode_invalid")
    ELSE IF ~OfferedByAll
    THEN resp = Response(400, "delivery_mode_not_available")
    ELSE resp.error \notin {"delivery_mode_not_available", "delivery_mode_invalid"}

\* a cart that passes was refused for a delivery mode that is none of the three
C11_Witness ==
  /\ req.op = "checkout"
  /\ CartPasses
  /\ RequestedMode = "drone"
  /\ resp.error = "delivery_mode_invalid"
  /\ dishes = before.dishes

\* the cart is a list whose first row that does not pass names a dish id that
\* no dish of the collection read has
FirstFailureIsMissingDish ==
  /\ req.payload.items.is_list
  /\ \E j \in DOMAIN ReqRows :
       /\ \A h \in 1..(j - 1) : RowPasses(ReqRows[h])
       /\ WellFormed(ReqRows[j])
       /\ \A k \in DOMAIN before.dishes : before.dishes[k].id # ReqRows[j].dish_id[1]

\* C12: a checkout whose cart names a dish id that is not in the dish
\* collection fails with dish_not_found and the not-found code 404, where the
\* other cart errors have the bad-request code 400.
C12_DishNotFound404 ==
  req.op = "checkout" =>
    /\ FirstFailureIsMissingDish => resp = Response(404, "dish_not_found")
    /\ resp.error \in CartErrors \ {"dish_not_found"} => resp.code = 400

(***************************************************************************)
(* Properties of the persisted orders and payments.                        *)
(***************************************************************************)
\* the orders that checkout created: they alone carry the id of a payment
CheckoutOrders == {i \in DOMAIN orders : orders[i].payment_id # <<>>}

\* C13: every persisted payment names exactly one persisted order, and the
\* payment_id of that order is the id of the payment; every order that
\* checkout created has exactly one payment that names it, the one whose id
\* is its payment_id.
C13_PaymentOrderOneToOne ==
  /\ \A p \in DOMAIN payments :
       /\ Cardinality({i \in DOMAIN orders : orders[i].id = payments[p].order_id}) = 1
       /\ \A i \in DOMAIN orders :
            orders[i].id = payments[p].order_id => orders[i].payment_id = payments[p].id
  /\ \A i \in CheckoutOrders :
       /\ Cardinality({p \in DOMAIN payments : payments[p].order_id = orders[i].id}) = 1
       /\ \A p \in DOMAIN payments :
            payments[p].order_id = orders[i].id => payments[p].id = orders[i].payment_id

\* a checkout followed a single-dish order: the second order has the first payment
C13_Witness ==
  /\ Len(orders) = 2
  /\ Len(payments) = 1
  /\ orders[1].payment_id = <<>>
  /\ orders[2].payment_id = payments[1].id
  /\ payments[1].order_id = orders[2].id

(***************************************************************************)
(* Properties of concurrent checkouts.                                     *)
(***************************************************************************)
\* the thread has written the dishes with the stock of its cart taken, and
\* has not yet answered
StockTaken(t) ==
  threads[t].pc \in {"read_orders", "read_payments", "write_payments", "write_orders"}

\* the payment record of the thread's checkout is in the payments collection
PaymentPersisted(t) ==
  /\ threads[t].pc = "write_orders"
  /\ ThreadPayment(t) \in Range(payments)

\* the order of the thread's checkout is in the orders collection
OrderPersisted(t) ==
  /\ threads[t].pc = "write_orders"
  /\ ThreadOrder(t) \in Range(orders)

\* C14: in no state that another request can observe is the payment of a
\* checkout persisted while its order is not, nor is the stock of a checkout
\* taken while its order and its payment are not yet persisted.
C14_AtomicOrderPayment ==
  \A t \in Threads :
    /\ PaymentPersisted(t) => OrderPersisted(t)
    /\ StockTaken(t) => (PaymentPersisted(t) /\ OrderPersisted(t))

\* both threads have a checkout that has come to its response
BothDone == \A t \in Threads : threads[t].pc = "done"

\* the rows of the cart of the thread's checkout
ThreadRows(t) == threads[t].payload.items.rows

\* the portions that the dishes the thread read have of the dish with this id
StockRead(t, dish_id) ==
  LET k == CHOOSE k \in DOMAIN threads[t].raw_dishes : threads[t].raw_dishes[k].id = dish_id
  IN  threads[t].raw_dishes[k].portions_available

\* the quantity the cart of the thread orders of the dish with this id
ThreadOrdered(t, dish_id) ==
  SumSeq([j \in DOMAIN ThreadRows(t) |->
            IF ThreadRows(t)[j].dish_id = <<dish_id>> THEN ThreadRows(t)[j].qty[1] ELSE 0])

\* taken alone, the checkout of the thread passes on the dishes it read: each
\* row asks for no more than the portions read, and the card is good
PassesAlone(t) ==
  /\ ThreadRows(t) # <<>>
  /\ \A j \in DOMAIN ThreadRows(t) :
       /\ ThreadRows(t)[j].qty[1] >= 1
       /\ ThreadRows(t)[j].qty[1] <= StockRead(t, ThreadRows(t)[j].dish_id[1])
  /\ threads[t].payload.payment.card_number = Visa

\* the dishes that the checkout of the thread, alone, leaves of those it read
LeftAlone(t) ==
  [k \in DOMAIN threads[t].raw_dishes |->
     [threads[t].raw_dishes[k] EXCEPT
        !.portions_available = Max(0, @ - ThreadOrdered(t, threads[t].raw_dishes[k].id))]]

\* C15: no lock orders the checkouts. When two concurrent checkouts have read
\* the same dishes and each passes on what it read, both succeed, whatever
\* the sum of their quantities, and the stock that remains is the stock that
\* one of them alone leaves: the other's quantity is sold and not taken.
C15_BothPassOnSameStock ==
  (/\ BothDone
   /\ threads[1].raw_dishes = threads[2].raw_dishes
   /\ PassesAlone(1)
   /\ PassesAlone(2)) =>
    /\ threads[1].resp.code = 201
    /\ threads[2].resp.code = 201
    /\ dishes \in {LeftAlone(1), LeftAlone(2)}

\* two checkouts read 2 portions of dish 1, and both succeeded with
\* quantities whose sum is more than 2
C15_Witness ==
  /\ BothDone
  /\ threads[1].raw_dishes = threads[2].raw_dishes
  /\ StockRead(1, 1) = 2
  /\ threads[1].resp.code = 201
  /\ threads[2].resp.code = 201
  /\ ThreadOrdered(1, 1) + ThreadOrdered(2, 1) > StockRead(1, 1)

\* both threads have answered a checkout with success
BothCreated == BothDone /\ \A t \in Threads : threads[t].resp.code = 201

\* C16: the ids are made of the length of the collection read. When two
\* concurrent checkouts have read the orders at the same length, both make
\* the same order id, and the orders persisted are the orders one thread read
\* with its own order appended: the order of the other is overwritten. When
\* they have read the payments at the same length, likewise for the payment
\* id and the payments persisted.
C16_IdCollision ==
  BothCreated =>
    /\ Len(threads[1].orders) = Len(threads[2].orders) =>
         /\ ThreadOrder(1).id = ThreadOrder(2).id
         /\ Len(orders) = Len(threads[1].orders) + 1
         /\ \E t \in Threads :
              /\ SubSeq(orders, 1, Len(orders) - 1) = threads[t].orders
              /\ Last(orders).id = ThreadOrder(t).id
              /\ Last(orders).items = ThreadOrder(t).items
    /\ Len(threads[1].payments) = Len(threads[2].payments) =>
         /\ ThreadPayment(1).id = ThreadPayment(2).id
         /\ Len(payments) = Len(threads[1].payments) + 1
         /\ \E t \in Threads :
              /\ SubSeq(payments, 1, Len(payments) - 1) = threads[t].payments
              /\ Last(payments).id = ThreadPayment(t).id
              /\ Last(payments).amount = ThreadPayment(t).amount

\* two checkouts that differ both succeeded with the same order id and the
\* same payment id, and one order and one payment are persisted
C16_Witness ==
  /\ BothCreated
  /\ threads[1].payload # threads[2].payload
  /\ ThreadOrder(1).id = ThreadOrder(2).id
  /\ ThreadPayment(1).id = ThreadPayment(2).id
  /\ Len(orders) = 1
  /\ Len(payments) = 1

\* C17: with one request handled at a time, the ids of the persisted orders
\* are pairwise distinct after any sequence of checkouts and single-dish
\* order creations, and so are the ids of the persisted payments.
C17_DistinctIds ==
  /\ \A i, j \in DOMAIN orders : i # j => orders[i].id # orders[j].id
  /\ \A p, q \in DOMAIN payments : p # q => payments[p].id # payments[q].id

\* a single-dish order followed a checkout, and their ids differ
C17_Witness ==
  /\ Len(orders) = 2
  /\ orders[1].payment_id # <<>>
  /\ orders[2].payment_id = <<>>
  /\ orders[1].id # orders[2].id

(***************************************************************************)
(* Properties of what a status update changes and what it leaves.          *)
(***************************************************************************)
IsPrefix(s, t) == Len(s) <= Len(t) /\ SubSeq(t, 1, Len(s)) = s

\* C18: the status_history of an order is append-only: in every step, the
\* history each order has persisted is a prefix, event for event, of the
\* history the order has persisted after the step.
C18_HistoryAppendOnly ==
  [][\A i \in DOMAIN orders :
       /\ i \in DOMAIN orders'
       /\ IsPrefix(orders[i].status_history, orders'[i].status_history)]_vars

\* an order whose history had two events got a third one by a status update
C18_Witness ==
  /\ req.op = "status"
  /\ resp.code = 200
  /\ \E i \in Targets :
       /\ Len(before.orders[i].status_history) = 2
       /\ Len(orders[i].status_history) = 3
       /\ IsPrefix(before.orders[i].status_history, orders[i].status_history)

\* an order without the fields of its status and history
WithoutStatusFields(order) ==
  [order EXCEPT !.status = "", !.status_history = <<>>,
                !.completed_at = "", !.cancelled_at = ""]

\* C19: a status update changes nothing but the status, the history,
\* completed_at and cancelled_at of the order it names: the items, the total,
\* the customer, the delivery mode, the payment and created_at of that order
\* stay, and so does every other order, whole.
C19_StatusUpdateFrame ==
  req.op = "status" =>
    /\ DOMAIN orders = DOMAIN before.orders
    /\ \A i \in DOMAIN orders :
         IF i \in Targets
         THEN /\ WithoutStatusFields(orders[i]) = WithoutStatusFields(before.orders[i])
              /\ orders[i].items = before.orders[i].items
              /\ orders[i].total_price = before.orders[i].total_price
              /\ orders[i].customer_name = before.orders[i].customer_name
              /\ orders[i].delivery_mode = before.orders[i].delivery_mode
              /\ orders[i].payment_id = before.orders[i].payment_id
              /\ orders[i].created_at = before.orders[i].created_at
         ELSE orders[i] = before.orders[i]

\* the second of two orders, made by checkout, was cancelled; the first stayed whole
C19_Witness ==
  /\ req.op = "status"
  /\ resp.code = 200
  /\ Len(orders) = 2
  /\ Targets = {2}
  /\ before.orders[2].status = "paid"
  /\ orders[2].status = "cancelled"
  /\ orders[2].payment_id = before.orders[2].payment_id
  /\ orders[2].payment_id # <<>>
  /\ orders[1] = before.orders[1]

\* C20: a payment that is persisted is not modified and not removed by any
\* later step (checkout, single-dish order, status update, review): it keeps
\* its place, every field keeps its value, and its status stays captured.
C20_PaymentImmutable ==
  [][\A p \in DOMAIN payments :
       /\ p \in DOMAIN payments'
       /\ payments'[p] = payments[p]
       /\ payments'[p].status = "captured"]_vars

\* after a review and a second checkout, the order of the first payment was
\* cancelled, and the first payment is as it was
C20_Witness ==
  /\ req.op = "status"
  /\ resp.code = 200
  /\ reviews # <<>>
  /\ Len(payments) = 2
  /\ \E i \in Targets :
       /\ orders[i].status = "cancelled"
       /\ orders[i].payment_id = payments[1].id
  /\ payments[1].status = "captured"
  /\ payments = before.payments

(***************************************************************************)
(* Properties of dish availability.                                        *)
(***************************************************************************)
\* minutes since midnight of a bound that is set
BoundMinutes(bound) == bound[1] * 60 + bound[2]

\* C21: a dish is available at a time of the day iff it has portions left and
\* the time is not before available_from, when that is set, and not after
\* available_until, when that is set; a dish with no portions is never
\* available; a time is inside a window with from <= until iff
\* from <= time <= until.
C21_Availability ==
  req.op = "dish_availability" =>
    LET dish == req.dish
        now == req.now_minutes
    IN  /\ resp.is_available <=>
             /\ dish.portions_available > 0
             /\ dish.available_from = <<>> \/ now >= BoundMinutes(dish.available_from)
             /\ dish.available_until = <<>> \/ now <= BoundMinutes(dish.available_until)
        /\ dish.portions_available = 0 => ~resp.is_available
        /\ (/\ dish.available_from # <<>>
            /\ dish.available_until # <<>>
            /\ BoundMinutes(dish.available_from) <= BoundMinutes(dish.available_until)) =>
             (resp.in_time_window <=>
                /\ BoundMinutes(dish.available_from) <= now
                /\ now <= BoundMinutes(dish.available_until))

\* a dish with portions is available at 20:00, the last minute of its window
C21_Witness ==
  /\ req.op = "dish_availability"
  /\ req.dish.portions_available > 0
  /\ req.dish.available_from = <<10, 0>>
  /\ req.dish.available_until = <<20, 0>>
  /\ req.now_minutes = 1200
  /\ resp.is_available

(***************************************************************************)
(* Properties of dish creation.                                            *)
(***************************************************************************)
\* a bound that is unset or a time HH:MM of the day
ValidBound(bound) ==
  \/ bound = <<>>
  \/ /\ Len(bound) = 2
     /\ bound[1] \in 0..23
     /\ bound[2] \in 0..59

\* both bounds are set and valid, and from is later than until
FromAfterUntil(from, until) ==
  /\ from # <<>> /\ ValidBound(from)
  /\ until # <<>> /\ ValidBound(until)
  /\ BoundMinutes(from) > BoundMinutes(until)

\* C22: dish creation rejects a form whose available_from is later than its
\* available_until, and a form with a bound that is not a valid HH:MM, and
\* leaves the dish collection as it was; so every dish that dish creation
\* has added has valid bounds and, when both are set, from <= until.
C22_WindowValidated ==
  /\ req.op = "create_dish" =>
       LET from == req.form.available_from
           until == req.form.available_until
       IN  (~ValidBound(from) \/ ~ValidBound(until) \/ FromAfterUntil(from, until)) =>
             /\ resp.code = 400
             /\ dishes = before.dishes
  /\ \A k \in DOMAIN dishes :
       k > Len(InitDishes) =>
         /\ ValidBound(dishes[k].available_from)
         /\ ValidBound(dishes[k].available_until)
         /\ ~FromAfterUntil(dishes[k].available_from, dishes[k].available_until)

\* a form good but for its window, from 10:30 until 10:00, was rejected
C22_Witness ==
  /\ req.op = "create_dish"
  /\ req.form.available_from = <<10, 30>>
  /\ req.form.available_until = <<10, 0>>
  /\ resp = Response(400, "availability_window_invalid")
  /\ dishes = before.dishes

(***************************************************************************)
(* Properties of the payment checks.                                       *)
(***************************************************************************)
\* the n-th character of a text counted from the right, from 1
FromRight(value, n) == value[Len(value) - n + 1]

\* the mod-10 check: every second digit counted from the right is doubled, 9
\* is taken off a result above 9, and the sum is divisible by 10
PassesLuhn(value) ==
  SumSeq([n \in 1..Len(value) |->
            IF n % 2 = 0
            THEN (IF 2 * FromRight(value, n) > 9 THEN 2 * FromRight(value, n) - 9
                  ELSE 2 * FromRight(value, n))
            ELSE FromRight(value, n)]) % 10 = 0

\* C23: valid_card_luhn is true exactly of the texts that are not empty, are
\* all digits and pass the mod-10 check, whether their length is even or
\* odd; 4242424242424242 is accepted and 4242424242424241 is rejected.
C23_Luhn ==
  req.op = "valid_card_luhn" =>
    /\ resp.valid <=>
         /\ req.value # <<>>
         /\ \A i \in DOMAIN req.value : req.value[i] \in 0..9
         /\ PassesLuhn(req.value)
    /\ req.value = <<4, 2, 4, 2, 4, 2, 4, 2, 4, 2, 4, 2, 4, 2, 4, 2>> => resp.valid
    /\ req.value = <<4, 2, 4, 2, 4, 2, 4, 2, 4, 2, 4, 2, 4, 2, 4, 1>> => ~resp.valid

\* a number of odd length, 15 digits, was accepted
C23_Witness ==
  /\ req.op = "valid_card_luhn"
  /\ Len(req.value) = 15
  /\ resp.valid

\* the instrument of the checkout request
Instrument == req.payload.payment

AllDigits(text) == \A i \in DOMAIN text : text[i] \in 0..9

DigitChar(char) == char \in 0..9

\* the digits of a text, the other characters dropped
DigitsOf(text) == SelectSeq(text, DigitChar)

PaymentErrors ==
  {"payment_required", "payment_method_not_supported", "card_number_invalid",
   "card_expiry_invalid", "card_cvc_invalid", "card_holder_invalid", "card_expired"}

\* C24 as stated: an instrument is accepted only if its method is "card", its
\* card number is all digits, 13 to 19 long and passes the Luhn check, its
\* CVC is 3 to 4 digits and its holder has 2 characters or more once trimmed.
C24_DigitsOnlyAccepted ==
  (req.op = "checkout" /\ resp.code = 201) =>
    /\ Instrument.method = "card"
    /\ AllDigits(Instrument.card_number)
    /\ Len(Instrument.card_number) \in 13..19
    /\ PassesLuhn(Instrument.card_number)
    /\ AllDigits(Instrument.cvc)
    /\ Len(Instrument.cvc) \in 3..4
    /\ Len(strip(Instrument.holder)) >= 2

\* the conditions of acceptance on the digits of the number and of the CVC
InstrumentGood ==
  /\ Instrument.is_dict
  /\ Instrument.method \in {"card", "CARD"}
  /\ Len(DigitsOf(Instrument.card_number)) \in 13..19
  /\ PassesLuhn(DigitsOf(Instrument.card_number))
  /\ Len(DigitsOf(Instrument.cvc)) \in 3..4
  /\ Len(strip(Instrument.holder)) >= 2

\* C24: an instrument is accepted only if its method is "card" whatever the
\* case of its letters, the digits of its card number, the other characters
\* dropped, are 13 to 19 and pass the Luhn check, the digits of its CVC are 3
\* to 4 and its holder has 2 characters or more once trimmed; an instrument
\* that fails one of these, offered for a cart that passes its validation, is
\* rejected with an error code of the payment, and no payment and no order
\* is created.
C24_PaymentValidation ==
  req.op = "checkout" =>
    /\ resp.code = 201 => InstrumentGood
    /\ ~InstrumentGood => resp.code = 400 /\ payments = before.payments
    /\ CartPasses /\ ~InstrumentGood =>
         /\ resp.code = 400
         /\ resp.error \in PaymentErrors
         /\ payments = before.payments
         /\ orders = before.orders

\* a card number written with blanks and a CVC with a letter in it were accepted
C24_Witness ==
  /\ req.op = "checkout"
  /\ resp.code = 201
  /\ Instrument.card_number = Visa4Spaced
  /\ Instrument.cvc = <<1, Letter, 2, 3>>
  /\ Len(payments) = Len(before.payments) + 1

\* the first four and the last four digits of a card number
First4(card_number) == SubSeq(DigitsOf(card_number), 1, 4)
Last4(card_number) ==
  SubSeq(DigitsOf(card_number), Len(DigitsOf(card_number)) - 3, Len(DigitsOf(card_number)))

\* the payloads that differ from the request at most in the digits between
\* the first four and the last four of the card number, the CVC and the expiry
SameButSecrets ==
  {other \in PaymentPayloads :
     /\ other.items = req.payload.items
     /\ other.delivery_mode = req.payload.delivery_mode
     /\ other.customer_name = req.payload.customer_name
     /\ other.payment.is_dict
     /\ other.payment.method = Instrument.method
     /\ other.payment.holder = Instrument.holder
     /\ Len(other.payment.card_number) = Len(Instrument.card_number)
     /\ First4(other.payment.card_number) = First4(Instrument.card_number)
     /\ Last4(other.payment.card_number) = Last4(Instrument.card_number)}

\* C25: the persisted payment, and the payment summary of the order, hold of
\* the card the brand, the last 4 digits and the mask of the first 4 and the
\* last 4 digits, and nothing else; a successful checkout that differs only
\* in the middle digits, the CVC and the expiry, run on the same stored
\* state, persists the same payments and the same orders.
C25_CardMasked ==
  (req.op = "checkout" /\ resp.code = 201) =>
    /\ DOMAIN Last(payments) =
         {"id", "order_id", "status", "method", "card_brand", "card_masked", "card_last4",
          "holder", "amount", "currency", "created_at"}
    /\ Last(payments).card_masked =
         [first4 |-> First4(Instrument.card_number), last4 |-> Last4(Instrument.card_number)]
    /\ Last(payments).card_last4 = Last4(Instrument.card_number)
    /\ Last(payments).card_brand = "VISA"
    /\ Last(orders).payment_summary =
         [card_brand |-> "VISA", card_masked |-> Last(payments).card_masked,
          amount |-> Last(payments).amount]
    /\ \A other \in SameButSecrets :
         LET out == checkout(other, req.now_minutes, req.today,
                             before.dishes, before.orders, before.payments)
         IN  out.resp.code = 201 => out.payments = payments /\ out.orders = orders

\* a card with other middle digits, another CVC and another expiry was
\* persisted as 4242 **** **** 4242
C25_Witness ==
  /\ req.op = "checkout"
  /\ resp.code = 201
  /\ Instrument.card_number = VisaOtherMiddle
  /\ Instrument.cvc = <<9, 8, 7, 6>>
  /\ Instrument.exp_year = <<2027>>
  /\ Last(payments).card_masked = [first4 |-> <<4, 2, 4, 2>>, last4 |-> <<4, 2, 4, 2>>]

(***************************************************************************)
(* Properties of the order of the checks of checkout.                      *)
(***************************************************************************)
ShapeErrors == {"items_required", "items_invalid", "payment_required", "delivery_mode_invalid"}

LookupErrors == {"dish_not_found", "dish_unavailable", "dish_stock_not_enough"}

\* the request has a cart that is no list or is empty, a malformed cart row,
\* a payment that is missing or no object, or a delivery mode that is none of
\* the three
HasShapeError ==
  \/ ~req.payload.items.is_list
  \/ ReqRows = <<>>
  \/ \E j \in DOMAIN ReqRows : ~WellFormed(ReqRows[j])
  \/ ~req.payload.payment.is_dict
  \/ RequestedMode \notin DeliveryModes

\* C26: a checkout request with a shape error is answered with a shape
\* error, never with dish_not_found, dish_unavailable or
\* dish_stock_not_enough from another part of the request.
C26_ShapeErrorFirst ==
  (req.op = "checkout" /\ HasShapeError) =>
    /\ resp.error \in ShapeErrors
    /\ resp.error \notin LookupErrors

(***************************************************************************)
(* Properties of the enriched view of an order.                            *)
(***************************************************************************)
\* the place of a status in the fixed order of the statuses
Place(status) ==
  CHOOSE n \in 1..8 :
    <<"new", "paid", "accepted", "cooking", "ready", "delivering", "completed",
      "cancelled">>[n] = status

\* the statuses other than its own that a status request for the order gets accepted
Accepted(i) ==
  {s \in KnownStatuses :
     /\ s # orders[i].status
     /\ update_order_status(orders[i].id, [status |-> s, actor |-> NoText, note |-> NoText],
                            orders).resp.code = 200}

\* C28: next_statuses of an order is the set of the statuses other than its
\* own that update-order-status accepts for it, which is the transition
\* table with delivering left out for a ready pickup order; it lists them in
\* the order new, paid, accepted, cooking, ready, delivering, completed,
\* cancelled, each once, and is empty for a completed or cancelled order.
C28_NextStatuses ==
  \A i \in DOMAIN orders :
    LET listed == next_statuses(orders[i])
    IN  /\ Range(listed) = Accepted(i)
        /\ Range(listed) = {s \in KnownStatuses : InTable(orders[i], s)}
        /\ \A m, n \in DOMAIN listed : m < n => Place(listed[m]) < Place(listed[n])
        /\ orders[i].status \in TerminalStatuses => listed = <<>>

\* a ready pickup order lists completed and cancelled, in this order
C28_Witness ==
  \E i \in DOMAIN orders :
    /\ orders[i].status = "ready"
    /\ orders[i].delivery_mode = "pickup"
    /\ next_statuses(orders[i]) = <<"completed", "cancelled">>

(***************************************************************************)
(* Properties of the review statistics.                                    *)
(***************************************************************************)
RatedRequest == req.op = "review_stats"

\* the places of the reviews that count for dish id
DishReviews(id) ==
  {k \in DOMAIN req.reviews :
     req.reviews[k].rating > 0 /\ req.reviews[k].dish_id > 0 /\ req.reviews[k].dish_id = id}

\* the places of the reviews that count for a dish that the dishes map to cook id
CookReviews(id) ==
  {k \in DOMAIN req.reviews :
     \E d \in DOMAIN req.dishes :
       /\ req.dishes[d].cook_id = id
       /\ k \in DishReviews(req.dishes[d].id)}

RECURSIVE RatingSum(_)
RatingSum(places) ==
  IF places = {} THEN 0
  ELSE LET k == CHOOSE p \in places : TRUE
       IN  req.reviews[k].rating + RatingSum(places \ {k})

\* rating is the average of the ratings at the places, to the nearest hundredth
IsAverage(rating, places) ==
  LET n == Cardinality(places)
  IN  /\ 2 * n * rating <= 2 * RatingSum(places) + n
      /\ 2 * RatingSum(places) + n < 2 * n * (rating + 1)

\* the item got the statistics of the reviews at the places, or kept its
\* stored rating with no review when there is none
Aggregated(item, stored, places) ==
  IF places # {}
  THEN item.reviews_count = Cardinality(places) /\ IsAverage(item.rating, places)
  ELSE item.reviews_count = 0 /\ item.rating = stored.rating

\* C29: a dish counts the reviews with rating > 0 and dish_id > 0 for that
\* dish and averages their ratings (ratings 5, 3, 4 give 4.0 and 3 reviews);
\* a cook counts the reviews of the dishes that the dishes map to that cook,
\* whatever cook_id the reviews carry; a dish or a cook with no such review
\* keeps its stored rating with reviews_count 0.
C29_RatingAggregation ==
  RatedRequest =>
    /\ \A k \in DOMAIN req.dishes :
         Aggregated(resp.dishes[k], req.dishes[k], DishReviews(req.dishes[k].id))
    /\ \A k \in DOMAIN req.cooks :
         Aggregated(resp.cooks[k], req.cooks[k], CookReviews(req.cooks[k].id))
    /\ \A k \in DOMAIN req.dishes :
         [p \in DOMAIN req.reviews |-> req.reviews[p].rating] = <<500, 300, 400>>
           /\ DishReviews(req.dishes[k].id) = {1, 2, 3}
           => resp.dishes[k].rating = 400 /\ resp.dishes[k].reviews_count = 3

\* ratings 5, 3, 4 of dish 1, of cook 1, in reviews that name cook 2: dish 1
\* and cook 1 get 4.0 of 3 reviews, cook 2 and dish 3 keep their stored rating
C29_Witness ==
  /\ RatedRequest
  /\ [p \in DOMAIN req.reviews |-> req.reviews[p].rating] = <<500, 300, 400>>
  /\ \A p \in DOMAIN req.reviews : req.reviews[p].dish_id = 1 /\ req.reviews[p].cook_id = 2
  /\ req.dishes[1].id = 1 /\ req.dishes[1].cook_id = 1
  /\ resp.dishes[1].rating = 400 /\ resp.dishes[1].reviews_count = 3
  /\ resp.cooks[1].rating = 400 /\ resp.cooks[1].reviews_count = 3
  /\ resp.cooks[2].rating = 350 /\ resp.cooks[2].reviews_count = 0
  /\ resp.dishes[3].rating = 310 /\ resp.dishes[3].reviews_count = 0

(***************************************************************************)
(* Properties of the expiry of a card.                                     *)
(***************************************************************************)
\* the month and the year of the expiry as numbers, 0 when missing
ExpMonth == IF Instrument.exp_month = <<>> THEN 0 ELSE Instrument.exp_month[1]
ExpYear == IF Instrument.exp_year = <<>> THEN 0 ELSE Instrument.exp_year[1]

ExpiryInRange == ExpMonth \in 1..12 /\ ExpYear \in 2000..2100

\* the expiry is a month before the month of today
ExpiryPassed == 12 * ExpYear + ExpMonth < 12 * req.today.year + req.today.month

\* C30: a card is rejected with card_expired only when its expiry is before
\* the year and month of today; of the cards that pass the other checks and
\* pay for a cart that passes its validation, one whose month is outside 1
\* to 12 or whose year is outside 2000 to 2100 is rejected with
\* card_expiry_invalid, one of an earlier month, the previous month included,
\* with card_expired, and one of the month of today or of a later month is
\* accepted.
C30_CardExpiry ==
  req.op = "checkout" =>
    /\ resp.error = "card_expired" => ExpiryInRange /\ ExpiryPassed
    /\ CartPasses /\ InstrumentGood =>
         /\ ~ExpiryInRange => resp.code = 400 /\ resp.error = "card_expiry_invalid"
         /\ ExpiryInRange /\ ExpiryPassed => resp.code = 400 /\ resp.error = "card_expired"
         /\ ExpiryInRange /\ ~ExpiryPassed => resp.code = 201
         /\ ExpYear = req.today.year /\ ExpMonth = req.today.month => resp.code = 201
         /\ /\ ExpiryInRange
            /\ 12 * ExpYear + ExpMonth = 12 * req.today.year + req.today.month - 1
            => resp.error = "card_expired"

\* a card that expires in the month of today paid for an order
C30_Witness ==
  /\ req.op = "checkout"
  /\ ExpYear = req.today.year
  /\ ExpMonth = req.today.month
  /\ resp.code = 201
  /\ Len(payments) = Len(before.payments) + 1

\* a card of December 2025 was rejected as expired in January 2026
C30_PreviousMonth ==
  /\ req.op = "checkout"
  /\ ExpYear = 2025 /\ ExpMonth = 12
  /\ req.today = [year |-> 2026, month |-> 1]
  /\ resp.error = "card_expired"

(***************************************************************************)
(* Properties of the ids of the dishes.                                    *)
(***************************************************************************)
DishIds(collection) == {collection[k].id : k \in DOMAIN collection}

\* id is above every id of the collection
AboveAll(id, collection) == \A k \in DOMAIN collection : collection[k].id < id

\* a creation has just added a dish
DishCreated == req.op = "create_dish" /\ resp.code = 201

\* C31: a created dish is appended with the id max(existing ids) + 1, 1 for
\* an empty collection, which is above every id of the collection; so the
\* ids of the dishes stay pairwise distinct, and each creation gives an id
\* above the ids of all the dishes created before it.
C31_DishIds ==
  /\ [](DishCreated =>
          /\ Len(dishes) = Len(before.dishes) + 1
          /\ SubSeq(dishes, 1, Len(before.dishes)) = before.dishes
          /\ before.dishes = <<>> => Last(dishes).id = 1
          /\ before.dishes # <<>> => Last(dishes).id - 1 \in DishIds(before.dishes)
          /\ AboveAll(Last(dishes).id, before.dishes))
  /\ [](\A j, k \in DOMAIN dishes : j # k => dishes[j].id # dishes[k].id)
  /\ [][dishes' # dishes =>
          /\ Len(dishes') = Len(dishes) + 1
          /\ SubSeq(dishes', 1, Len(dishes)) = dishes
          /\ AboveAll(Last(dishes').id, dishes)]_vars

\* three dishes were created one after the other in an empty collection and
\* got the ids 1, 2, 3
C31_Witness ==
  /\ DishCreated
  /\ Len(before.dishes) = 2
  /\ [k \in DOMAIN dishes |-> dishes[k].id] = <<1, 2, 3>>
  /\ \A k \in DOMAIN dishes : dishes[k].price = 250

(***************************************************************************)
(* Properties of stored orders with an unknown status or with no history.  *)
(***************************************************************************)
\* the order that the request is about, as it was stored when the request came
StoredOrder == before.orders[find_order(before.orders, req.order_id)]

OrderShown == req.op = "get_order" /\ resp.code = 200

\* a status written in capitals or with blanks around it, in small letters
SpelledAs(status) ==
  CASE status = "READY " -> "ready"
    [] status = "COMPLETED" -> "completed"
    [] OTHER -> status

Unrecognised(status) == SpelledAs(status) \notin KnownStatuses

\* the one event shown for an order with no stored history
SynthesizedEvent(order, status) ==
  [status |-> status,
   at |-> IF order.created_at \in {NoText, ""} THEN Stamp ELSE order.created_at,
   by |-> "system",
   note |-> ""]

\* C32 as stated: an order whose stored status is not one of the eight known
\* statuses is shown with the status new.
C32_UnknownIsNew ==
  OrderShown /\ StoredOrder.status \notin KnownStatuses => resp.order.status = "new"

\* C32: an order whose stored status is none of the eight known statuses,
\* however it is written in capitals or with blanks around it, is shown with
\* the status new and the next statuses accepted and cancelled, and a status
\* update moves it to accepted or to cancelled only; a known status written
\* in capitals or with blanks is shown in small letters; an order with no
\* stored history is shown with one event that carries its created_at and
\* the status it is shown with.
C32_UnknownStatus ==
  /\ OrderShown =>
       /\ Unrecognised(StoredOrder.status) =>
            /\ resp.order.status = "new"
            /\ resp.order.next_statuses = <<"accepted", "cancelled">>
       /\ ~Unrecognised(StoredOrder.status) =>
            resp.order.status = SpelledAs(StoredOrder.status)
       /\ StoredOrder.status_history = <<>> =>
            resp.order.status_history = <<SynthesizedEvent(StoredOrder, resp.order.status)>>
  /\ /\ req.op = "status"
     /\ find_order(before.orders, req.order_id) # 0
     /\ Unrecognised(StoredOrder.status)
     => /\ resp.code = 200 <=> req.payload.status \in {"new", "accepted", "cancelled"}
        /\ orders # before.orders <=> req.payload.status \in {"accepted", "cancelled"}
        /\ req.payload.status \in KnownStatuses \ {"new", "accepted", "cancelled"}
             => resp.error = "status_transition_invalid" /\ resp.current_status = "new"

\* an order stored with the status bogus and no history was shown as new,
\* with one event of the status new at its created_at
C32_Witness ==
  /\ OrderShown
  /\ StoredOrder.status = "bogus"
  /\ StoredOrder.status_history = <<>>
  /\ StoredOrder.created_at = "2025-12-31"
  /\ resp.order.status = "new"
  /\ resp.order.status_history =
       <<[status |-> "new", at |-> "2025-12-31", by |-> "system", note |-> ""]>>

(***************************************************************************)
(* Properties of the stock over the orders.                                *)
(***************************************************************************)
RECURSIVE LinesSold(_, _)
\* the quantity of the dish of the id over the lines
LinesSold(lines, id) ==
  IF lines = <<>> THEN 0
  ELSE (IF Head(lines).dish_id = id THEN Head(lines).qty ELSE 0) + LinesSold(Tail(lines), id)

\* the quantity of the dish that an order sold, in its lines or, for an
\* order of the older endpoint, in its own fields
OrderSold(order, id) ==
  LinesSold(order.items, id) + (IF order.dish_id = id THEN order.qty ELSE 0)

RECURSIVE Sold(_, _)
Sold(stored, id) ==
  IF stored = <<>> THEN 0 ELSE OrderSold(Head(stored), id) + Sold(Tail(stored), id)

\* C33: for every dish, the portions available at the start are the portions
\* available now plus the quantity of the dish over all the lines of all the
\* orders created; so no more portions of a dish are sold than were in stock.
C33_StockConserved ==
  \A k \in DOMAIN InitDishes :
    /\ InitDishes[k].portions_available =
         dishes[k].portions_available + Sold(orders, InitDishes[k].id)
    /\ Sold(orders, InitDishes[k].id) <= InitDishes[k].portions_available

(***************************************************************************)
(* Properties of the history of the orders that the server created.        *)
(***************************************************************************)
\* C34: for every order, the last event of its stored history carries the
\* status of the order, and no two events that follow each other carry the
\* same status.
C34_HistoryFollowsStatus ==
  \A i \in DOMAIN orders :
    LET history == orders[i].status_history
    IN  /\ history # <<>>
        /\ history[Len(history)].status = orders[i].status
        /\ \A j \in 1..(Len(history) - 1) : history[j].status # history[j + 1].status

\* an order of checkout and an order of the older endpoint, each after two
\* status updates
C34_Witness ==
  /\ \E i \in DOMAIN orders :
       /\ orders[i].payment_id # <<>>
       /\ Len(orders[i].status_history) = 3
       /\ orders[i].status = "cooking"
  /\ \E i \in DOMAIN orders :
       /\ orders[i].payment_id = <<>>
       /\ Len(orders[i].status_history) = 3
       /\ orders[i].status = "cancelled"

\* the order that the status request was about, as it is stored now
UpdatedOrder == orders[find_order(before.orders, req.order_id)]

\* C35: when a valid transition is applied to a stored order with no stored
\* history, the history stored afterwards is an initial event with the
\* status that the order had before the transition, followed by one event
\* with the new status.
C35_HistoryOfOldOrder ==
  /\ req.op = "status"
  /\ resp.code = 200
  /\ orders # before.orders
  /\ StoredOrder.status_history = <<>>
  => /\ Len(UpdatedOrder.status_history) = 2
     /\ UpdatedOrder.status_history[1].status =
          (IF Unrecognised(StoredOrder.status) THEN "new"
           ELSE SpelledAs(StoredOrder.status))
     /\ UpdatedOrder.status_history[2].status = UpdatedOrder.status

\* C36: every change of the status of an order moves it forward in the order
\* new, paid, accepted, cooking, ready, delivering, completed, cancelled; the
\* history of an order that checkout created has at most 6 events, which are
\* its creation and at most 5 changes of status, each with a status further
\* in that order than the one before.
C36_ForwardOnly ==
  /\ [][\A i \in DOMAIN orders :
          orders'[i].status # orders[i].status =>
            Place(orders[i].status) < Place(orders'[i].status)]_vars
  /\ [](\A i \in DOMAIN orders :
          LET history == orders[i].status_history
          IN  /\ \A j \in 1..(Len(history) - 1) :
                   Place(history[j].status) < Place(history[j + 1].status)
              /\ orders[i].payment_id # <<>> =>
                   /\ history[1].status = "paid"
                   /\ Len(history) <= 6)

\* an order of checkout went through accepted, cooking, ready and delivering
\* to completed: 5 changes and 6 events
C36_Witness ==
  \E i \in DOMAIN orders :
    /\ orders[i].payment_id # <<>>
    /\ orders[i].status = "completed"
    /\ [j \in DOMAIN orders[i].status_history |-> orders[i].status_history[j].status] =
         <<"paid", "accepted", "cooking", "ready", "delivering", "completed">>

\* C37: a pickup order never has the status delivering, and no event of its
\* history carries it.
C37_PickupNeverDelivering ==
  \A i \in DOMAIN orders :
    orders[i].delivery_mode = "pickup" =>
      /\ orders[i].status # "delivering"
      /\ \A j \in DOMAIN orders[i].status_history :
           orders[i].status_history[j].status # "delivering"

\* a pickup order that was ready was asked to go to delivering and stayed
\* ready
C37_Witness ==
  /\ req.op = "status"
  /\ req.payload.status = "delivering"
  /\ resp.code = 400
  /\ \E i \in DOMAIN orders :
       /\ orders[i].id = req.order_id
       /\ orders[i].delivery_mode = "pickup"
       /\ orders[i].status = "ready"
       /\ Len(orders[i].status_history) = 4

\* the order carries a time of completion, of cancellation
CompletedAt(order) == order.completed_at # ""
CancelledAt(order) == order.cancelled_at # ""

\* C38: an order carries completed_at iff its status is completed and
\* cancelled_at iff its status is cancelled, and never both; an order that
\* carries one of them is not written again, so the time stays as it is.
C38_TerminalTimestamps ==
  /\ [](\A i \in DOMAIN orders :
          /\ CompletedAt(orders[i]) <=> orders[i].status = "completed"
          /\ CancelledAt(orders[i]) <=> orders[i].status = "cancelled"
          /\ ~(CompletedAt(orders[i]) /\ CancelledAt(orders[i])))
  /\ [][\A i \in DOMAIN orders :
          CompletedAt(orders[i]) \/ CancelledAt(orders[i]) => orders'[i] = orders[i]]_vars

\* an order of checkout was completed and an order of the older endpoint was
\* cancelled, and a later status request for a completed order was refused
C38_Witness ==
  /\ \E i \in DOMAIN orders :
       /\ orders[i].payment_id # <<>>
       /\ orders[i].status = "completed"
       /\ orders[i].completed_at = Stamp
       /\ orders[i].cancelled_at = ""
       /\ req.op = "status" /\ req.order_id = orders[i].id /\ resp.code = 400
       /\ before.orders[i].status = "completed"
  /\ \E i \in DOMAIN orders :
       /\ orders[i].payment_id = <<>>
       /\ orders[i].status = "cancelled"
       /\ orders[i].cancelled_at = Stamp
       /\ orders[i].completed_at = ""

\* the order after a request for the status, when the request is accepted
\* and changes the order; the order as it is otherwise
Moved(order, status) ==
  update_order_status(order.id, [status |-> status, actor |-> NoText, note |-> NoText],
                      <<order>>).orders[1]

\* the statuses that a request can move the order to
Moves(order) == {s \in KnownStatuses : Moved(order, s).status # order.status}

RECURSIVE CanComplete(_, _)
\* a sequence of at most n accepted requests ends in completed
CanComplete(order, n) ==
  \/ order.status = "completed"
  \/ /\ n > 0
     /\ \E s \in Moves(order) : CanComplete(Moved(order, s), n - 1)

\* C39: an order that is not completed or cancelled can be cancelled by one
\* request and can be moved to one other status at least, and a sequence of
\* accepted requests takes it to completed, whatever its delivery mode; this
\* holds of an order as created, paid or new, above all.
C39_NeverStuck ==
  \A i \in DOMAIN orders :
    \A mode \in {orders[i].delivery_mode, "pickup", "cook", "courier"} :
      LET order == [orders[i] EXCEPT !.delivery_mode = mode]
      IN  order.status \notin TerminalStatuses =>
            /\ Moved(order, "cancelled").status = "cancelled"
            /\ Moves(order) \ {"cancelled"} # {}
            /\ CanComplete(order, 5)

\* a pickup order went from paid to completed without delivery
C39_Witness ==
  \E i \in DOMAIN orders :
    /\ orders[i].delivery_mode = "pickup"
    /\ [j \in DOMAIN orders[i].status_history |-> orders[i].status_history[j].status] =
         <<"paid", "accepted", "cooking", "ready", "completed">>
    /\ orders[i].status = "completed"

\* C40: the portions of a dish are never negative and no step raises them;
\* a checkout and an order of the older endpoint leave them as they are or
\* lower them, and a status update, the cancellation of an order included,
\* and the creation of a review leave the dishes as they are.
C40_StockOnlyFalls ==
  /\ [](\A k \in DOMAIN dishes : dishes[k].portions_available >= 0)
  /\ [][/\ Len(dishes') >= Len(dishes)
        /\ \A k \in DOMAIN dishes :
             dishes'[k].portions_available <= dishes[k].portions_available]_vars
  /\ [](req.op \in {"status", "create_review"} => dishes = before.dishes)
  /\ [](req.op \in {"checkout", "create_order"} =>
          \A k \in DOMAIN before.dishes :
            /\ dishes[k].portions_available <= before.dishes[k].portions_available
            /\ resp.code # 201 => dishes[k] = before.dishes[k])

\* an order that took a portion of dish 1 was cancelled, and the portion did
\* not come back
C40_Witness ==
  /\ req.op = "status"
  /\ req.payload.status = "cancelled"
  /\ resp.code = 200
  /\ \E i \in DOMAIN orders :
       /\ orders[i].id = req.order_id
       /\ before.orders[i].status # "cancelled"
       /\ orders[i].status = "cancelled"
       /\ OrderSold(orders[i], 1) > 0
  /\ dishes = before.dishes
  /\ dishes[1].portions_available < InitDishes[1].portions_available

====
